---- MODULE Spec2Model ----
(***************************************************************************)
(* Model of the text-capture and replacement pipeline of Writing Tools     *)
(* (Windows_and_Linux/WritingToolApp.py and backends/).                    *)
(*                                                                         *)
(* Texts are sequences of one-character strings.  Time is counted in       *)
(* tenths of a second.                                                     *)
(***************************************************************************)
EXTENDS Integers, Sequences, FiniteSets, TLC

VARIABLES
    session,           \* SESSION_TYPE: "x11" or "wayland"
    clipboard,         \* content of the system clipboard
    selection,         \* text selected in the focused application (primary selection); <<>> = none
    pc,                \* position of the thread running the current operation
    op,                \* the operation being run / last run
    text,              \* argument of the running paste operation
    clipboard_backup,  \* local clipboard_backup of the running operation
    ret,               \* value returned by the last finished operation
    raised,            \* TRUE when the last finished operation propagated an exception
    clip0,             \* clipboard content when the current operation was called
    combo_clip,        \* clipboard content at the moment the last paste combo was injected
    output_queue,      \* WritingToolApp.output_queue
    has_response_window, \* hasattr(self, "current_response_window")
    message,           \* last message box requested through show_message_signal by the operation
    \* --- the Wayland replace path (_handle_wayland_paste) ---
    avail,             \* external tools that are installed and usable during the operation
    bk_thread,         \* clipboard-backup thread (get_clipboard): "none", "running", "done"
    rs_thread,         \* clipboard-restore thread (restore_clipboard): "none", "running", "done"
    workers,           \* per paste backend: state of its run_method thread
    reported,          \* per paste backend: what the cascade read from result_container
    invoked,           \* paste backends started by _try_comprehensive_paste, in order
    cidx,              \* loop index of _try_comprehensive_paste
    midx,              \* loop index over replacement_methods
    tried,             \* replacement methods called by _try_comprehensive_replacement, in order
    original_window,   \* self._original_window ("unset" while the attribute does not exist)
    focused_window,    \* window that has the input focus
    pasted,            \* what the target application received: pasted or typed texts, in order
    \* --- the hotkey handler (on_hotkey_pressed) ---
    now,               \* time.time(), in tenths of a second
    recent_triggers,   \* self.recent_triggers
    last_hotkey_time,  \* self.last_hotkey_time
    hotkey_processing, \* self.hotkey_processing
    running,           \* FALSE once exit_app has quit the application
    outcome,           \* how the on_hotkey_pressed call that just ran ended ("none": none just ran)
    capture,           \* what that call captured: the selection, the text returned, exceptions
    trig,              \* when that call ran, relative to the earlier triggers
    prev_trigger,      \* time of the latest on_hotkey_pressed call (-1: none yet)
    prev_accepted,     \* time of the latest call that passed the debounce check (-1: none yet)
    pipelines,         \* stage of each capture-to-replace pipeline in flight
    checks,            \* times of the calls of check_trigger_spam so far
    spam,              \* value returned by the latest call of check_trigger_spam
    popup_captures,    \* the capture attempts of the latest _show_popup, in order
    \* --- _try_ydotool_key_typing ---
    key_text,          \* the text argument
    key_sequence,      \* key_sequence as built by the call
    delayed_sequence,  \* delayed_sequence as built by the call
    key_ret,           \* "none" before the call, then what it returned
    \* --- records of the current operation ---
    read_failed,       \* TRUE when the operation's initial clipboard read raised
    focus0,            \* window that had the focus when the replace operation began
    activated,         \* window the operation activated with kdotool ("none": none)
    replaced_by,       \* index of the replacement method that succeeded (0: none)
    \* --- the paste simulation cascades ---
    sim_pc,            \* position of the cascade: "none", "start", "join", "returned"
    sim_methods,       \* the methods list the cascade built
    sim_i,             \* loop index over the methods
    sim_threads,       \* per method: "none", "running", or what the method returned
    sim_log,           \* what the loop observed after each join, in order
    \* --- _try_type_directly ---
    td_text,           \* the text argument
    td_log,            \* the ydotool commands run and the calls made, in order
    td_ret,            \* "none" before the call, then what it returned
    \* --- _try_ydotool_paste and _try_ydotool_paste_enhanced ---
    yd_fn,             \* which of the two is running ("none": not called yet)
    yd_i,              \* (1-based) loop index over the commands
    yd_log,            \* what the call ran, in order: <<"spawn", 0>>, <<"windowactivate", i>>,
                       \* <<"run", i>>, <<"restart", i>> (pkill ydotoold, then ydotoold)
    yd_ret,            \* "none" while running, then what the call returned
    yd_daemons,        \* number of ydotoold processes running
    \* --- the subprocess invocations of one activation on Wayland ---
    sub_i,             \* index in SubCalls of the invocation being made (0: none)
    sub_state,         \* "idle", "calling", "done", or "hung": waiting for a process for ever
    sub_log,           \* the invocations made and how each ended, in order
    \* --- which thread runs what ---
    cg_stack,          \* per thread, the functions it is executing, outermost first
    cg_queue,          \* the slots whose signal was emitted and which the event loop has not run yet
    cg_sleeping,       \* per thread, the source line of the time.sleep it is executing (0: none)
    cg_writing,        \* per thread, the application state it is assigning ("none": none)
    \* --- the target application of the X11 paste ---
    paste_events,      \* the texts whose Ctrl+V was injected and which the target has not handled yet
    target_got,        \* the last paste the target handled: the text meant for it and what it read
    \* --- the provider request of process_option ---
    prov_request,      \* the request the thread of process_option is to make (NoRequest: none)
    prov_signals       \* the signals emitted and queued invocations the event loop has not delivered yet

clipvars == <<session, clipboard, selection, pc, op, text, clipboard_backup, ret,
              raised, clip0, combo_clip, output_queue, has_response_window, message>>

wlvars == <<avail, bk_thread, rs_thread, workers, reported, invoked, cidx, midx, tried,
            original_window, focused_window, pasted>>

clipvars_but_pc == <<session, clipboard, selection, op, text, clipboard_backup, ret,
                     raised, clip0, combo_clip, output_queue, has_response_window, message>>

hotvars == <<now, recent_triggers, last_hotkey_time, hotkey_processing, running, outcome,
             capture, trig, prev_trigger, prev_accepted, pipelines, checks, spam,
             popup_captures>>

keyvars == <<key_text, key_sequence, delayed_sequence, key_ret>>

opvars == <<read_failed, focus0, activated, replaced_by>>

simvars == <<sim_pc, sim_methods, sim_i, sim_threads, sim_log>>

typevars == <<td_text, td_log, td_ret>>

ydvars == <<yd_fn, yd_i, yd_log, yd_ret, yd_daemons>>

subvars == <<sub_i, sub_state, sub_log>>

cgvars == <<cg_stack, cg_queue, cg_sleeping, cg_writing>>

tgtvars == <<paste_events, target_got>>

provvars == <<prov_request, prov_signals>>

toolvars == <<simvars, typevars, ydvars, subvars, cgvars, tgtvars, provvars>>

vars == <<clipvars, wlvars, hotvars, keyvars, opvars, toolvars>>

----------------------------------------------------------------------------
(* Text helpers (Python str methods, computed character by character).     *)

NoText == <<>>

IsSpace(c) == c \in {" ", "\n", "\t", "\r"}

RECURSIVE lstrip(_)
lstrip(s) == IF s # <<>> /\ IsSpace(Head(s)) THEN lstrip(Tail(s)) ELSE s

RECURSIVE rstrip(_)
rstrip(s) ==
    IF s # <<>> /\ IsSpace(s[Len(s)]) THEN rstrip(SubSeq(s, 1, Len(s) - 1)) ELSE s

\* str.strip()
strip(s) == lstrip(rstrip(s))

\* str.rstrip("\n")
RECURSIVE rstrip_nl(_)
rstrip_nl(s) ==
    IF s # <<>> /\ s[Len(s)] = "\n" THEN rstrip_nl(SubSeq(s, 1, Len(s) - 1)) ELSE s

\* "".join(s.split()) : s without its whitespace
remove_space(s) == SelectSeq(s, LAMBDA c : ~IsSpace(c))

\* needle in hay  (substring test)
contains(hay, needle) ==
    \E i \in 0..(Len(hay) - Len(needle)) : SubSeq(hay, i + 1, i + Len(needle)) = needle

----------------------------------------------------------------------------
(* The environment: the clipboard tools and the focused application.       *)

\* The focused application handling an injected Ctrl+C: it writes its selection
\* to the clipboard, and writes nothing when nothing is selected.
AppCopy(clip, sel) == IF sel # NoText THEN sel ELSE clip

\* wl-paste: prints the content followed by a newline and exits 0; exits 1 when
\* the selection it is asked for is empty ("Nothing is copied").
WlPaste(content) ==
    IF content = NoText THEN [rc |-> 1, stdout |-> NoText]
    ELSE [rc |-> 0, stdout |-> content \o <<"\n">>]

NoMessage == <<"none", "none">>

----------------------------------------------------------------------------
(* backends/x11_backend.py                                                 *)

\* The calls of X11Backend.get_selected_text that can raise.
X11GetFaults == {"none", "paste", "clear", "keys", "read", "restore"}

\* X11Backend.get_selected_text: the clipboard it leaves, the value it returns
\* and whether an exception left it.  fault names the call that raises.
X11Backend_get_selected_text(clip, sel, fault) ==
    IF fault = "paste" THEN [clipboard |-> clip, ret |-> NoText, raised |-> TRUE]
    ELSE LET backup == clip IN
    IF fault = "clear" THEN [clipboard |-> clip, ret |-> NoText, raised |-> TRUE]
    ELSE LET cleared == NoText IN
    IF fault = "keys" THEN [clipboard |-> cleared, ret |-> NoText, raised |-> TRUE]
    ELSE LET copied == AppCopy(cleared, sel) IN
    IF fault = "read" THEN [clipboard |-> copied, ret |-> NoText, raised |-> TRUE]
    ELSE LET txt == copied IN
    IF fault = "restore" THEN [clipboard |-> copied, ret |-> NoText, raised |-> TRUE]
    ELSE [clipboard |-> backup, ret |-> txt, raised |-> FALSE]

----------------------------------------------------------------------------
(* backends/wayland_backend.py                                             *)

\* WaylandBackend.get_selected_text: wl-paste --primary, and on
\* CalledProcessError plain wl-paste; both with check=True.  installed = FALSE:
\* the wl-paste binary is missing (FileNotFoundError, not caught).
WaylandBackend_get_selected_text(clip, sel, installed) ==
    IF ~installed THEN [ret |-> NoText, raised |-> TRUE]
    ELSE LET first == WlPaste(sel) IN
    IF first.rc = 0 THEN [ret |-> first.stdout, raised |-> FALSE]
    ELSE LET second == WlPaste(clip) IN
    IF second.rc = 0 THEN [ret |-> second.stdout, raised |-> FALSE]
    ELSE [ret |-> NoText, raised |-> TRUE]

\* The calls of WaylandBackend.paste_text that can raise (each is caught).
WlPasteFaults == {"backup", "copy", "verify", "simulate", "restore"}

\* WaylandBackend.paste_text: the clipboard it leaves and the success it returns.
\* F is the set of its calls that raise.
WaylandBackend_paste_text(clip, txt, F) ==
    LET backup == IF "backup" \in F THEN NoText ELSE clip
        set == IF "copy" \in F THEN clip ELSE txt
        success == IF "copy" \in F THEN FALSE
                   ELSE IF "verify" \in F THEN TRUE
                   ELSE contains(set, txt)
        final == IF backup # NoText /\ "restore" \notin F THEN backup ELSE set
    IN [clipboard |-> final, ret |-> success, raised |-> FALSE]

----------------------------------------------------------------------------
(* WritingToolApp.replace_text and the X11 replace path                    *)

\* error_message of replace_text: "ERROR_TEXT_INCOMPATIBLE_WITH_REQUEST"
error_message ==
    <<"E","R","R","O","R","_","T","E","X","T","_","I","N","C","O","M","P","A","T",
      "I","B","L","E","_","W","I","T","H","_","R","E","Q","U","E","S","T">>

\* Bound of the model: replace_text is followed while at most this many
\* characters of earlier output are still queued.
MaxPending == 2

\* Values of the model's inputs.
ClipTexts == {NoText, <<"c">>}
SelTexts == {NoText, <<"s">>, <<" ">>}
NewTexts == {NoText, <<"n">>, <<"n", "\n">>, <<"E", "R">>, error_message}

\* replace_text, lines 574-592: what the slot does with new_text.
\*   "ignore"  : new_text is empty or no string
\*   "error"   : the accumulated output is the error message
\*   "partial" : the accumulated output may still grow into the error message
\*   "window"  : the output goes to the response window
\*   "paste"   : the output is pasted into the target application
replace_text_route(queue, new_text, window) ==
    IF new_text = NoText THEN "ignore"
    ELSE LET current_output == strip(queue \o new_text)
             clean_current == remove_space(current_output)
             clean_error == remove_space(error_message)
         IN IF current_output = error_message THEN "error"
            ELSE IF Len(current_output) <= Len(error_message)
                    /\ clean_current = SubSeq(clean_error, 1, Len(clean_current))
                 THEN "partial"
            ELSE IF window THEN "window"
            ELSE "paste"

\* target_got before the target handled any paste.
NotYet == [expected |-> NoText, read |-> NoText]

\* prov_request when no request is to be made.
NoRequest == [provider |-> "none", fault |-> "none", open_in_window |-> FALSE, no_text |-> FALSE]

\* External tools the replace path runs.
Tools == {"kdotool", "ydotool", "dotool", "wtype", "pynput", "wl-copy"}

\* Sets of usable tools the model draws from.  An available tool may still fail
\* when it is run, so the runs with every tool available cover every pattern
\* of successes and failures.
AvailPool == {{}, {"wl-copy"}, Tools}

\* Bound of the model: paste backends of one operation that outlast their join.
MaxLateWorkers == 1

\* methods of _try_comprehensive_paste, in list order (lines 976-988)
PasteBackends == <<"ydotool", "dotool", "wtype", "pynput">>

\* replacement_methods of _try_comprehensive_replacement, in list order (lines 819-830)
ReplacementMethods ==
    <<"type_directly", "ctrl+a ctrl+v", "ctrl+v", "backspace ctrl+v", "delete ctrl+v">>

Windows == {"w1", "w2"}

\* No thread started by an earlier operation is still running.
ThreadsQuiet ==
    /\ bk_thread # "running"
    /\ rs_thread # "running"
    /\ \A i \in DOMAIN workers : workers[i] # "running"

\* The locals of _handle_wayland_paste and of the cascades at the start of an operation.
WlReset ==
    /\ bk_thread' = "none"
    /\ rs_thread' = "none"
    /\ workers' = [i \in DOMAIN PasteBackends |-> "none"]
    /\ reported' = [i \in DOMAIN PasteBackends |-> "none"]
    /\ invoked' = <<>>
    /\ cidx' = 0
    /\ midx' = 0
    /\ tried' = <<>>
    /\ pasted' = <<>>

\* The operation leaves its locals behind when it starts.
StartOp(name) ==
    /\ op' = name
    /\ clip0' = clipboard
    /\ ret' = NoText
    /\ raised' = FALSE
    /\ message' = NoMessage
    /\ combo_clip' = NoText
    /\ clipboard_backup' = NoText
    /\ read_failed' = FALSE
    /\ activated' = "none"
    /\ replaced_by' = 0

\* replace_text(new_text), run by the event loop for output_ready_signal.
ReplaceTextSlot(new_text) ==
    /\ pc = "idle"
    /\ Len(output_queue) <= MaxPending
    /\ LET route == replace_text_route(output_queue, new_text, has_response_window) IN
       /\ StartOp("replace_text")
       /\ output_queue' = IF route = "ignore" THEN output_queue
                           ELSE output_queue \o new_text
       /\ text' = IF route = "paste" THEN rstrip_nl(output_queue \o new_text)
                   ELSE NoText
       /\ pc' = IF route # "paste" THEN "idle"
                 ELSE IF session = "wayland" THEN "wl_backup"
                 ELSE "x11_backup"
       /\ message' = IF route = "error"
                      THEN <<"Error", "The text is incompatible with the requested change.">>
                      ELSE NoMessage
       /\ avail' \in (IF route = "paste" /\ session = "wayland" THEN AvailPool ELSE {{}})
       /\ UNCHANGED <<session, clipboard, selection, has_response_window>>
    /\ focus0' = focused_window
    /\ ThreadsQuiet
    /\ WlReset
    /\ UNCHANGED <<original_window, focused_window>>
    /\ UNCHANGED <<hotvars, keyvars>>

\* The slot run for some text, whoever emitted the signal.
ReplaceText ==
    /\ \E new_text \in NewTexts : ReplaceTextSlot(new_text)
    /\ UNCHANGED toolvars

\* _handle_x11_paste, except branch (lines 1165-1167), then replace_text lines 621-622.
X11PasteFailed ==
    /\ message' = <<"Error", "Failed to paste text">>
    /\ pc' = "replace_end"

\* _handle_x11_paste line 1148: clipboard_backup = pyperclip.paste()
X11PasteBackup ==
    /\ pc = "x11_backup"
    /\ op' = "x11_paste"
    /\ \E fails \in BOOLEAN :
        /\ IF fails THEN X11PasteFailed /\ UNCHANGED clipboard_backup
           ELSE clipboard_backup' = clipboard /\ pc' = "x11_copy" /\ UNCHANGED message
        /\ read_failed' = fails
    /\ UNCHANGED <<session, clipboard, selection, text, ret, raised, clip0, combo_clip,
                   output_queue, has_response_window>>
    /\ UNCHANGED wlvars
    /\ UNCHANGED <<hotvars, keyvars, toolvars, focus0, activated, replaced_by>>

\* _handle_x11_paste line 1149: pyperclip.copy(text)
X11PasteCopy ==
    /\ pc = "x11_copy"
    /\ \E fails \in BOOLEAN :
        IF fails THEN X11PasteFailed /\ UNCHANGED clipboard
        ELSE clipboard' = text /\ pc' = "x11_combo" /\ UNCHANGED message
    /\ UNCHANGED <<session, selection, op, text, clipboard_backup, ret, raised, clip0,
                   combo_clip, output_queue, has_response_window>>
    /\ UNCHANGED wlvars
    /\ UNCHANGED <<hotvars, keyvars, toolvars, opvars>>

\* _handle_x11_paste lines 1151-1160: the Ctrl+V combo is injected, then sleep.
X11PasteComboKeys ==
    /\ pc = "x11_combo"
    /\ \E fails \in BOOLEAN :
        IF fails THEN X11PasteFailed /\ UNCHANGED combo_clip
        ELSE combo_clip' = clipboard /\ pc' = "x11_restore" /\ UNCHANGED message
    /\ UNCHANGED <<session, clipboard, selection, op, text, clipboard_backup, ret, raised,
                   clip0, output_queue, has_response_window>>
    /\ UNCHANGED wlvars
    /\ UNCHANGED <<hotvars, keyvars, opvars>>

\* The same, the target application left out of the picture.
X11PasteCombo == X11PasteComboKeys /\ UNCHANGED toolvars

\* The same, and the target application has the key event to handle: the X
\* server delivers it, and the target reads the clipboard when it handles it.
X11PasteComboSent ==
    /\ X11PasteComboKeys
    /\ paste_events' = IF pc' = "x11_restore" THEN paste_events \cup {text} ELSE paste_events
    /\ UNCHANGED target_got
    /\ UNCHANGED <<simvars, typevars, ydvars, subvars, cgvars, provvars>>

\* The target application handles a paste key event: it asks for the clipboard
\* content at that moment, whatever _handle_x11_paste has done since.
TargetHandlesPaste ==
    /\ \E p \in paste_events :
        /\ target_got' = [expected |-> p, read |-> clipboard]
        /\ paste_events' = paste_events \ {p}
    /\ UNCHANGED <<clipvars, wlvars, hotvars, keyvars, opvars>>
    /\ UNCHANGED <<simvars, typevars, ydvars, subvars, cgvars, provvars>>

\* _handle_x11_paste line 1161: pyperclip.copy(clipboard_backup)
X11PasteRestore ==
    /\ pc = "x11_restore"
    /\ \E fails \in BOOLEAN :
        IF fails THEN X11PasteFailed /\ UNCHANGED clipboard
        ELSE clipboard' = clipboard_backup /\ pc' = "replace_end" /\ UNCHANGED message
    /\ UNCHANGED <<session, selection, op, text, clipboard_backup, ret, raised, clip0,
                   combo_clip, output_queue, has_response_window>>
    /\ UNCHANGED wlvars
    /\ UNCHANGED <<hotvars, keyvars, toolvars, opvars>>

\* replace_text lines 621-622, after the paste handler returned.
ReplaceEnd ==
    /\ pc = "replace_end"
    /\ output_queue' = IF has_response_window THEN output_queue ELSE NoText
    /\ pc' = "idle"
    /\ UNCHANGED <<session, clipboard, selection, op, text, clipboard_backup, ret, raised,
                   clip0, combo_clip, has_response_window, message>>
    /\ UNCHANGED wlvars
    /\ UNCHANGED <<hotvars, keyvars, toolvars, opvars>>

----------------------------------------------------------------------------
(* WritingToolApp._handle_wayland_paste                                    *)

\* lines 642-656: the backup thread get_clipboard is started.
WlBackupStart ==
    /\ pc = "wl_backup"
    /\ op' = "wayland_paste"
    /\ bk_thread' = "running"
    /\ pc' = "wl_join"
    /\ UNCHANGED <<session, clipboard, selection, text, clipboard_backup, ret, raised, clip0,
                   combo_clip, output_queue, has_response_window, message>>
    /\ UNCHANGED <<avail, rs_thread, workers, reported, invoked, cidx, midx, tried,
                   original_window, focused_window, pasted>>
    /\ UNCHANGED <<hotvars, keyvars, toolvars, opvars>>

\* get_clipboard (lines 646-651), on its own thread: clipboard_backup = pyperclip.paste()
WlBackupThread ==
    /\ bk_thread = "running"
    /\ \E fails \in BOOLEAN :
        /\ clipboard_backup' = IF fails THEN clipboard_backup ELSE clipboard
        /\ read_failed' = fails
    /\ bk_thread' = "done"
    /\ UNCHANGED <<session, clipboard, selection, pc, op, text, ret, raised, clip0,
                   combo_clip, output_queue, has_response_window, message>>
    /\ UNCHANGED <<avail, rs_thread, workers, reported, invoked, cidx, midx, tried,
                   original_window, focused_window, pasted>>
    /\ UNCHANGED <<hotvars, keyvars, toolvars, focus0, activated, replaced_by>>

\* line 657: thread.join(timeout=2) returns, the thread finished or not.
WlBackupJoin ==
    /\ pc = "wl_join"
    /\ pc' = "wl_set"
    /\ UNCHANGED <<session, clipboard, selection, op, text, clipboard_backup, ret, raised,
                   clip0, combo_clip, output_queue, has_response_window, message>>
    /\ UNCHANGED wlvars
    /\ UNCHANGED <<hotvars, keyvars, toolvars, opvars>>

\* lines 662-687 and 721-725: wl-copy, else pyperclip.copy(text).
WlSetClipboard ==
    /\ pc = "wl_set"
    /\ \E wlcopy_ok \in BOOLEAN, pyperclip_ok \in BOOLEAN :
        LET by_wlcopy == wlcopy_ok /\ "wl-copy" \in avail
            clipboard_success == by_wlcopy \/ pyperclip_ok
        IN /\ clipboard' = IF clipboard_success THEN text ELSE clipboard
           /\ message' = IF clipboard_success THEN message
                          ELSE <<"Error", "Failed to copy text to clipboard. Please try again.">>
           /\ pc' = IF clipboard_success THEN "wl_store" ELSE "wl_restore"
    /\ UNCHANGED <<session, selection, op, text, clipboard_backup, ret, raised, clip0,
                   combo_clip, output_queue, has_response_window>>
    /\ UNCHANGED wlvars
    /\ UNCHANGED <<hotvars, keyvars, toolvars, opvars>>

\* lines 692-693 and _store_original_window (lines 745-777)
WlStoreWindow ==
    /\ pc = "wl_store"
    /\ \E rc0 \in BOOLEAN :
        original_window' =
            IF original_window = "unset" /\ rc0 /\ "kdotool" \in avail
            THEN focused_window ELSE original_window
    /\ pc' = "wl_replace"
    /\ UNCHANGED clipvars_but_pc
    /\ UNCHANGED <<avail, bk_thread, rs_thread, workers, reported, invoked, cidx, midx, tried,
                   focused_window, pasted>>
    /\ UNCHANGED <<hotvars, keyvars, toolvars, opvars>>

\* _try_comprehensive_replacement lines 789-816: the checks and the focus restore.
WlReplaceBegin ==
    /\ pc = "wl_replace"
    /\ \E rc0 \in BOOLEAN :
        LET text_to_replace == strip(output_queue)
            can == original_window # "unset" /\ text_to_replace # NoText
            focus_ok == can /\ rc0 /\ "kdotool" \in avail
        IN /\ focused_window' = IF focus_ok THEN original_window ELSE focused_window
           /\ pc' = IF focus_ok THEN "wl_method" ELSE "wl_cascade"
           /\ midx' = IF focus_ok THEN 1 ELSE midx
           /\ cidx' = IF focus_ok THEN cidx ELSE 1
           /\ activated' = IF focus_ok THEN original_window ELSE activated
    /\ UNCHANGED clipvars_but_pc
    /\ UNCHANGED <<avail, bk_thread, rs_thread, workers, reported, invoked, tried,
                   original_window, pasted>>
    /\ UNCHANGED <<hotvars, keyvars, toolvars, read_failed, focus0, replaced_by>>

\* _try_comprehensive_replacement lines 832-840: where the handler goes after a
\* replacement method returned.  The first success returns True, and the handler
\* returns (line 704); after the last failure the generic cascade is run (line 709).
ReplacementNext_M(ok, last) ==
    IF ~last THEN "wl_method" ELSE IF ok THEN "replace_end" ELSE "wl_cascade"
ReplacementNext(ok, last) ==
    IF ok THEN "replace_end" ELSE IF last THEN "wl_cascade" ELSE "wl_method"

\* _try_comprehensive_replacement lines 832-840 and _handle_wayland_paste lines 698-704:
\* replacement method midx is called; the first success returns from the handler.
WlReplaceMethod ==
    /\ pc = "wl_method"
    /\ tried' = Append(tried, ReplacementMethods[midx])
    /\ \E succeeds \in BOOLEAN :
        LET ok == succeeds /\ "ydotool" \in avail
            nxt == ReplacementNext(ok, midx = Len(ReplacementMethods))
        IN
        /\ pasted' = IF ~ok THEN pasted
                     ELSE IF midx = 1 THEN Append(pasted, <<"typed", strip(output_queue)>>)
                     ELSE Append(pasted, <<"pasted", clipboard>>)
        /\ message' = IF ok THEN <<"Success", "Text replaced automatically!">> ELSE message
        /\ pc' = nxt
        /\ midx' = IF nxt = "wl_method" THEN midx + 1 ELSE midx
        /\ cidx' = IF nxt = "wl_cascade" THEN 1 ELSE cidx
        /\ replaced_by' = IF ok THEN midx ELSE replaced_by
    /\ UNCHANGED <<session, clipboard, selection, op, text, clipboard_backup, ret, raised,
                   clip0, combo_clip, output_queue, has_response_window>>
    /\ UNCHANGED <<avail, bk_thread, rs_thread, workers, reported, invoked,
                   original_window, focused_window>>
    /\ UNCHANGED <<hotvars, keyvars, toolvars, read_failed, focus0, activated>>

\* _try_comprehensive_paste lines 991-1009: the thread of backend cidx is started.
WlCascadeStart ==
    /\ pc = "wl_cascade"
    /\ workers' = [workers EXCEPT ![cidx] = "running"]
    /\ invoked' = Append(invoked, PasteBackends[cidx])
    /\ pc' = "wl_cjoin"
    /\ UNCHANGED clipvars_but_pc
    /\ UNCHANGED <<avail, bk_thread, rs_thread, reported, cidx, midx, tried,
                   original_window, focused_window, pasted>>
    /\ UNCHANGED <<hotvars, keyvars, toolvars, opvars>>

\* run_method (lines 1000-1005) on its thread: the backend's method returns.  A
\* backend that pastes makes the target read the clipboard.  _try_pykeyboard_paste
\* (lines 1751-1764) has no return statement: it returns None.
WlWorkerFinish ==
    \E i \in DOMAIN workers :
        /\ workers[i] = "running"
        /\ \E succeeds \in BOOLEAN :
            LET ok == succeeds /\ PasteBackends[i] \in avail IN
            /\ pasted' = IF ok THEN Append(pasted, <<"pasted", clipboard>>) ELSE pasted
            /\ workers' = [workers EXCEPT ![i] =
                              IF PasteBackends[i] = "pynput" THEN "done_none"
                              ELSE IF ok THEN "done_true" ELSE "done_false"]
        /\ UNCHANGED clipvars
        /\ UNCHANGED <<avail, bk_thread, rs_thread, reported, invoked, cidx, midx, tried,
                       original_window, focused_window>>
    /\ UNCHANGED <<hotvars, keyvars, toolvars, opvars>>

\* Backends whose method can outlast thread.join(timeout=8): their subprocess
\* timeouts add up to more than 8 seconds.
CanOutlastJoin(i) == PasteBackends[i] \in {"ydotool", "dotool", "wtype"}

\* What line 1012 reads from result_container["success"] after the join.
ReadResult(w) ==
    IF w = "done_true" THEN "success" ELSE IF w = "running" THEN "timeout" ELSE "failure"

\* lines 1012-1017: the loop goes on to the next backend unless this one reported
\* success or was the last.
CascadeContinues_M(r, last) == ~last
CascadeContinues(r, last) == r # "success" /\ ~last

\* _try_comprehensive_paste lines 1010-1023 and _handle_wayland_paste lines 709-720:
\* thread.join(timeout=8) returns and result_container is read.
WlCascadeJoin ==
    /\ pc = "wl_cjoin"
    /\ workers[cidx] = "running" =>
          /\ CanOutlastJoin(cidx)
          /\ Cardinality({i \in DOMAIN reported : reported[i] = "timeout"}) < MaxLateWorkers
    /\ LET r == ReadResult(workers[cidx])
           last == cidx = Len(PasteBackends)
       IN /\ reported' = [reported EXCEPT ![cidx] = r]
          /\ message' = IF r = "success" THEN <<"Success", "Text replaced automatically!">>
                         ELSE IF last
                         THEN <<"Info", "Text copied to clipboard! Press Ctrl+V to paste manually.">>
                         ELSE message
          /\ pc' = IF CascadeContinues(r, last) THEN "wl_cascade" ELSE "wl_restore"
          /\ cidx' = IF CascadeContinues(r, last) THEN cidx + 1 ELSE cidx
    /\ UNCHANGED <<session, clipboard, selection, op, text, clipboard_backup, ret, raised,
                   clip0, combo_clip, output_queue, has_response_window>>
    /\ UNCHANGED <<avail, bk_thread, rs_thread, workers, invoked, midx, tried,
                   original_window, focused_window, pasted>>
    /\ UNCHANGED <<hotvars, keyvars, toolvars, opvars>>

\* lines 727-743: the restore thread is started when the backup is not empty.
WlRestoreStart ==
    /\ pc = "wl_restore"
    /\ rs_thread' = IF clipboard_backup # NoText THEN "running" ELSE rs_thread
    /\ pc' = "replace_end"
    /\ UNCHANGED clipvars_but_pc
    /\ UNCHANGED <<avail, bk_thread, workers, reported, invoked, cidx, midx, tried,
                   original_window, focused_window, pasted>>
    /\ UNCHANGED <<hotvars, keyvars, toolvars, opvars>>

\* restore_clipboard (lines 731-735), on its own thread: pyperclip.copy(clipboard_backup)
WlRestoreThread ==
    /\ rs_thread = "running"
    /\ \E fails \in BOOLEAN :
        clipboard' = IF fails THEN clipboard ELSE clipboard_backup
    /\ rs_thread' = "done"
    /\ UNCHANGED <<session, selection, pc, op, text, clipboard_backup, ret, raised, clip0,
                   combo_clip, output_queue, has_response_window, message>>
    /\ UNCHANGED <<avail, bk_thread, workers, reported, invoked, cidx, midx, tried,
                   original_window, focused_window, pasted>>
    /\ UNCHANGED <<hotvars, keyvars, toolvars, opvars>>

----------------------------------------------------------------------------
(* Direct calls of the backends' operations                                *)

\* X11Backend().get_selected_text()
CallX11GetSelectedText ==
    /\ pc = "idle"
    /\ session = "x11"
    /\ \E fault \in X11GetFaults :
        LET r == X11Backend_get_selected_text(clipboard, selection, fault) IN
        /\ clipboard' = r.clipboard
        /\ op' = "x11_get_selected_text"
        /\ clip0' = clipboard
        /\ ret' = r.ret
        /\ raised' = r.raised
        /\ read_failed' = (fault = "paste")
    /\ message' = NoMessage
    /\ combo_clip' = NoText
    /\ clipboard_backup' = NoText
    /\ UNCHANGED <<session, selection, pc, text, output_queue, has_response_window>>
    /\ UNCHANGED wlvars
    /\ UNCHANGED <<hotvars, keyvars, toolvars, focus0, activated, replaced_by>>

\* WaylandBackend().get_selected_text()
CallWaylandGetSelectedText ==
    /\ pc = "idle"
    /\ session = "wayland"
    /\ \E installed \in BOOLEAN :
        LET r == WaylandBackend_get_selected_text(clipboard, selection, installed) IN
        /\ op' = "wayland_get_selected_text"
        /\ clip0' = clipboard
        /\ ret' = r.ret
        /\ raised' = r.raised
    /\ message' = NoMessage
    /\ combo_clip' = NoText
    /\ clipboard_backup' = NoText
    /\ read_failed' = FALSE
    /\ UNCHANGED <<session, clipboard, selection, pc, text, output_queue,
                   has_response_window>>
    /\ UNCHANGED wlvars
    /\ UNCHANGED <<hotvars, keyvars, toolvars, focus0, activated, replaced_by>>

\* WaylandBackend().paste_text(text)
CallWaylandPasteText ==
    /\ pc = "idle"
    /\ session = "wayland"
    /\ \E txt \in NewTexts, F \in SUBSET WlPasteFaults :
        LET r == WaylandBackend_paste_text(clipboard, txt, F) IN
        /\ clipboard' = r.clipboard
        /\ op' = "wayland_paste_text"
        /\ clip0' = clipboard
        /\ text' = txt
        /\ ret' = <<r.ret>>
        /\ raised' = r.raised
        /\ read_failed' = ("backup" \in F)
    /\ message' = NoMessage
    /\ combo_clip' = NoText
    /\ clipboard_backup' = NoText
    /\ UNCHANGED <<session, selection, pc, output_queue, has_response_window>>
    /\ UNCHANGED wlvars
    /\ UNCHANGED <<hotvars, keyvars, toolvars, focus0, activated, replaced_by>>

\* The calls of X11Backend.get_active_window_title that can fail: no display to
\* open, no _NET_ACTIVE_WINDOW property on the root window (get_full_property
\* returns None), a window that is gone.
X11TitleFaults == {"none", "display", "no_active_window", "bad_window"}

\* Title of the focused window, and the placeholder of the Wayland backend.
WindowTitle == <<"t">>
Placeholder == <<"<Wayland>">>

\* X11Backend.get_active_window_title (lines 9-15): no call is guarded.
X11Backend_get_active_window_title(fault) ==
    IF fault # "none" THEN [ret |-> NoText, raised |-> TRUE]
    ELSE [ret |-> WindowTitle, raised |-> FALSE]

\* The probes of WaylandBackend.get_active_window_title, in order (lines 25-76).
TitleProbes == <<"wlrctl", "kde", "gnome", "cinnamon", "xfce", "sway", "river", "wayfire">>

\* WaylandBackend.get_active_window_title (lines 11-79).  works is the set of
\* probes that find the title; every other probe raises or finds nothing, which
\* its try/except turns into no title.
WaylandBackend_get_active_window_title(works) ==
    IF \E i \in DOMAIN TitleProbes : TitleProbes[i] \in works
    THEN [ret |-> WindowTitle, raised |-> FALSE]
    ELSE [ret |-> Placeholder, raised |-> FALSE]

\* X11Backend().get_active_window_title()
CallX11GetActiveWindowTitle ==
    /\ pc = "idle"
    /\ session = "x11"
    /\ \E fault \in X11TitleFaults :
        LET r == X11Backend_get_active_window_title(fault) IN
        /\ ret' = r.ret
        /\ raised' = r.raised
    /\ op' = "x11_get_active_window_title"
    /\ clip0' = clipboard
    /\ message' = NoMessage
    /\ combo_clip' = NoText
    /\ clipboard_backup' = NoText
    /\ read_failed' = FALSE
    /\ UNCHANGED <<session, clipboard, selection, pc, text, output_queue,
                   has_response_window>>
    /\ UNCHANGED wlvars
    /\ UNCHANGED <<hotvars, keyvars, toolvars, focus0, activated, replaced_by>>

\* WaylandBackend().get_active_window_title()
CallWaylandGetActiveWindowTitle ==
    /\ pc = "idle"
    /\ session = "wayland"
    /\ \E works \in SUBSET {TitleProbes[i] : i \in DOMAIN TitleProbes} :
        LET r == WaylandBackend_get_active_window_title(works) IN
        /\ ret' = r.ret
        /\ raised' = r.raised
    /\ op' = "wayland_get_active_window_title"
    /\ clip0' = clipboard
    /\ message' = NoMessage
    /\ combo_clip' = NoText
    /\ clipboard_backup' = NoText
    /\ read_failed' = FALSE
    /\ UNCHANGED <<session, clipboard, selection, pc, text, output_queue,
                   has_response_window>>
    /\ UNCHANGED wlvars
    /\ UNCHANGED <<hotvars, keyvars, toolvars, focus0, activated, replaced_by>>

\* What an operation left behind is forgotten when the user acts between operations.
Forget ==
    /\ op' = "none"
    /\ clip0' = NoText
    /\ ret' = NoText
    /\ raised' = FALSE
    /\ message' = NoMessage
    /\ combo_clip' = NoText
    /\ clipboard_backup' = NoText
    /\ text' = NoText
    /\ ThreadsQuiet
    /\ WlReset
    /\ avail' = {}
    /\ read_failed' = FALSE
    /\ focus0' = "none"
    /\ activated' = "none"
    /\ replaced_by' = 0

\* Between operations the user copies something else or focuses another window.
UserCopies ==
    /\ pc = "idle"
    /\ clipboard' \in ClipTexts
    /\ focused_window' \in Windows
    /\ Forget
    /\ UNCHANGED <<session, selection, pc, output_queue, has_response_window,
                   original_window>>
    /\ UNCHANGED <<hotvars, keyvars, toolvars>>

\* Between operations the user selects other text, or drops the selection.
UserSelects ==
    /\ pc = "idle"
    /\ selection' \in SelTexts
    /\ Forget
    /\ UNCHANGED <<session, clipboard, pc, output_queue, has_response_window,
                   original_window, focused_window>>
    /\ UNCHANGED <<hotvars, keyvars, toolvars>>

----------------------------------------------------------------------------
(* The hotkey handler: debounce, spam check, capture                       *)

\* self.TRIGGER_WINDOW = 3.0 seconds
TRIGGER_WINDOW == 30
\* self.MAX_TRIGGERS
MAX_TRIGGERS == 3
\* self.HOTKEY_DEBOUNCE_TIME = 0.5 seconds
HOTKEY_DEBOUNCE_TIME == 5

\* Bounds of the model: the clock starts at StartTime (time.time() is far from
\* the initial last_hotkey_time = 0) and is followed for Horizon tenths of a second.
StartTime == 10
Horizon == 12
\* Bound of the model: pipelines in flight at once.
MaxPipelines == 2

NoCapture == [sel |-> NoText, ret |-> NoText, raised |-> FALSE, faulty |-> FALSE]
NoTrig == [since_prev |-> -1, since_accepted |-> -1]

\* __init__ lines 131-138
HotInit ==
    /\ now = StartTime
    /\ recent_triggers = <<>>
    /\ last_hotkey_time = 0
    /\ hotkey_processing = FALSE
    /\ running = TRUE
    /\ outcome = "none"
    /\ capture = NoCapture
    /\ trig = NoTrig
    /\ prev_trigger = -1
    /\ prev_accepted = -1
    /\ pipelines = [p \in 1..MaxPipelines |-> "none"]
    /\ checks = <<>>
    /\ spam = FALSE
    /\ popup_captures = <<>>

\* line 186: the test that keeps a trigger t in the list at current_time
InWindow_M(current_time, t) == current_time - t < TRIGGER_WINDOW
InWindow(current_time, t) == current_time - t <= TRIGGER_WINDOW

\* check_trigger_spam (lines 174-191) at current_time: the new list, and the result.
check_trigger_spam(triggers, current_time) ==
    LET appended == Append(triggers, current_time)
        kept == SelectSeq(appended, LAMBDA t : InWindow(current_time, t))
    IN [recent_triggers |-> kept, spam |-> Len(kept) >= MAX_TRIGGERS]

\* line 299: the debounce test
Debounced_M(current_time, last) == current_time - last <= HOTKEY_DEBOUNCE_TIME
Debounced(current_time, last) == current_time - last < HOTKEY_DEBOUNCE_TIME

\* lines 320-328: the backend's get_selected_text for the session.  fault and
\* installed are the environment's part: a call that raises, a missing wl-paste.
BackendCapture(sess, clip, sel, fault, installed) ==
    IF sess = "wayland"
    THEN LET r == WaylandBackend_get_selected_text(clip, sel, installed)
         IN [sel |-> sel, ret |-> r.ret, raised |-> r.raised, faulty |-> ~installed,
             clipboard |-> clip]
    ELSE LET r == X11Backend_get_selected_text(clip, sel, fault)
         IN [sel |-> sel, ret |-> r.ret, raised |-> r.raised, faulty |-> fault # "none",
             clipboard |-> r.clipboard]

\* The main thread runs the event loop: no slot is executing.
MainFree == \A p \in DOMAIN pipelines : pipelines[p] # "replace"

FreeSlots == {p \in DOMAIN pipelines : pipelines[p] = "none"}

\* lines 325-348 of on_hotkey_pressed: the outcome of the capture.
CaptureOutcome(title_raises, cap) ==
    IF title_raises \/ cap.raised THEN "capture_error"
    ELSE IF strip(cap.ret) = NoText THEN "no_text"
    ELSE "popup"

\* hotkey_processing when on_hotkey_pressed returns, having set it at line 295:
\* reset at lines 301 (debounced), 309 (spam_exit), 331 (capture_error),
\* 336 (no_text) and 348 (popup).
FlagAtExit_M(exit_path) == exit_path = "no_text"
FlagAtExit(exit_path) == FALSE

\* on_hotkey_pressed (lines 286-348), run by the event loop for hotkey_triggered_signal.
\* The event loop runs queued calls in order: a _show_popup queued by an earlier
\* trigger runs before the handler of a later one.
OnHotkeyPressed ==
    /\ running
    /\ MainFree
    /\ \A p \in DOMAIN pipelines : pipelines[p] # "popup_queued"
    /\ FreeSlots # {}
    /\ prev_trigger' = now
    /\ trig' = [since_prev |-> IF prev_trigger < 0 THEN -1 ELSE now - prev_trigger,
                since_accepted |-> IF prev_accepted < 0 THEN -1 ELSE now - prev_accepted]
    /\ IF hotkey_processing
       THEN /\ outcome' = "busy"
            /\ capture' = NoCapture
            /\ UNCHANGED <<recent_triggers, last_hotkey_time, hotkey_processing, running,
                           prev_accepted, pipelines, checks, spam, output_queue, clipboard>>
       ELSE IF Debounced(now, last_hotkey_time)
       THEN /\ outcome' = "debounced"
            /\ capture' = NoCapture
            /\ hotkey_processing' = FlagAtExit("debounced")
            /\ UNCHANGED <<recent_triggers, last_hotkey_time, running, prev_accepted,
                           pipelines, checks, spam, output_queue, clipboard>>
       ELSE LET c == check_trigger_spam(recent_triggers, now) IN
            /\ last_hotkey_time' = now
            /\ prev_accepted' = now
            /\ recent_triggers' = c.recent_triggers
            /\ checks' = Append(checks, now)
            /\ spam' = c.spam
            /\ IF c.spam
               THEN /\ outcome' = "spam_exit"
                    /\ running' = FALSE
                    /\ capture' = NoCapture
                    /\ UNCHANGED <<pipelines, output_queue, clipboard>>
               ELSE \E fault \in X11GetFaults, installed \in BOOLEAN, title_raises \in BOOLEAN :
                    /\ title_raises => session = "x11"
                    /\ session = "wayland" => fault = "none"
                    /\ session = "x11" => installed
                    /\ LET cap == IF title_raises
                                  THEN [NoCapture EXCEPT !.sel = selection]
                                  ELSE BackendCapture(session, clipboard, selection,
                                                      fault, installed)
                           out == CaptureOutcome(title_raises, cap)
                       IN /\ capture' = [sel |-> cap.sel, ret |-> cap.ret,
                                         raised |-> cap.raised,
                                         faulty |-> cap.faulty \/ title_raises]
                          /\ clipboard' = IF title_raises THEN clipboard ELSE cap.clipboard
                          /\ outcome' = out
                          /\ pipelines' =
                                IF out = "popup"
                                THEN [pipelines EXCEPT
                                        ![CHOOSE p \in FreeSlots : \A q \in FreeSlots : p <= q]
                                            = "popup_queued"]
                                ELSE pipelines
                    /\ output_queue' = NoText
                    /\ UNCHANGED running
            /\ hotkey_processing' = FlagAtExit(outcome')
    /\ UNCHANGED <<now, popup_captures>>
    /\ UNCHANGED <<session, selection, pc, op, text, clipboard_backup, ret,
                   raised, clip0, combo_clip, has_response_window, message>>
    /\ UNCHANGED <<wlvars, keyvars, toolvars, opvars>>

\* The clock advances by d tenths of a second.
TickBy(d, limit) ==
    /\ running
    /\ now + d <= limit
    /\ now' = now + d
    /\ outcome' = "none"
    /\ capture' = NoCapture
    /\ trig' = NoTrig
    /\ UNCHANGED <<recent_triggers, last_hotkey_time, hotkey_processing, running,
                   prev_trigger, prev_accepted, pipelines, checks, spam,
                   popup_captures>>
    /\ UNCHANGED <<clipvars, wlvars, keyvars, toolvars, opvars>>

Tick == TickBy(1, StartTime + Horizon)

\* Bound of the model of the spam window: the clock is followed for LongHorizon
\* tenths of a second, in steps of the debounce interval.
LongHorizon == 45

LongTick == TickBy(HOTKEY_DEBOUNCE_TIME, StartTime + LongHorizon)

\* sleep_duration: the default of WritingToolApp.get_selected_text (line 414) and
\* the value _show_popup passes on its retry (line 362), in tenths of a second
default_sleep_duration == 2
retry_sleep_duration == 5

\* time.sleep(0.2) of X11Backend.get_selected_text (x11_backend.py line 26), between
\* the simulated Ctrl+C and the clipboard read
x11_copy_sleep == 2

\* The delay a backend waits between the simulated copy and the read.  The
\* Wayland backend reads the selection with wl-paste: no simulated copy, no delay.
BackendSettle(sess) == IF sess = "x11" THEN x11_copy_sleep ELSE 0

\* WritingToolApp.get_selected_text(sleep_duration), lines 414-427: the backend is
\* called without arguments (line 424); an exception gives "".
get_selected_text(sess, clip, sel, fault, installed, sleep_duration) ==
    LET cap == BackendCapture(sess, clip, sel, fault, installed)
        r == IF cap.raised THEN NoText ELSE cap.ret
    IN [ret |-> r,
        clipboard |-> cap.clipboard,
        attempt |-> [sleep_duration |-> sleep_duration,
                     settle |-> BackendSettle(sess),
                     ret |-> r]]

\* _show_popup (lines 350-412), queued by on_hotkey_pressed: the selection is
\* captured, and captured again when the first capture gave "" (lines 357-362);
\* an open popup is closed, the new one is shown.
ShowPopup ==
    /\ running
    /\ MainFree
    /\ \E p \in DOMAIN pipelines :
        /\ pipelines[p] = "popup_queued"
        /\ pipelines' = [q \in DOMAIN pipelines |->
                            IF q = p THEN "popup"
                            ELSE IF pipelines[q] = "popup" THEN "none"
                            ELSE pipelines[q]]
    /\ \E f1 \in X11GetFaults, f2 \in X11GetFaults, i1 \in BOOLEAN, i2 \in BOOLEAN :
        /\ session = "wayland" => (f1 = "none" /\ f2 = "none")
        /\ session = "x11" => (i1 /\ i2)
        /\ LET first == get_selected_text(session, clipboard, selection, f1, i1,
                                          default_sleep_duration)
               retry == get_selected_text(session, first.clipboard, selection, f2, i2,
                                          retry_sleep_duration)
           IN IF first.ret = NoText
              THEN /\ popup_captures' = <<first.attempt, retry.attempt>>
                   /\ clipboard' = retry.clipboard
              ELSE /\ popup_captures' = <<first.attempt>>
                   /\ clipboard' = first.clipboard
    /\ UNCHANGED <<now, recent_triggers, last_hotkey_time, hotkey_processing, running,
                   outcome, capture, trig, prev_trigger, prev_accepted, checks, spam>>
    /\ UNCHANGED <<session, selection, pc, op, text, clipboard_backup, ret, raised, clip0,
                   combo_clip, output_queue, has_response_window, message>>
    /\ UNCHANGED <<wlvars, keyvars, toolvars, opvars>>

\* The user picks an option in the popup: process_option (lines 439-477) starts
\* process_option_thread; or the user closes the popup.
ProcessOption ==
    /\ running
    /\ MainFree
    /\ \E p \in DOMAIN pipelines, picks \in BOOLEAN :
        /\ pipelines[p] = "popup"
        /\ pipelines' = [pipelines EXCEPT ![p] = IF picks THEN "provider" ELSE "none"]
    /\ UNCHANGED <<now, recent_triggers, last_hotkey_time, hotkey_processing, running,
                   outcome, capture, trig, prev_trigger, prev_accepted, checks, spam,
                   popup_captures>>
    /\ UNCHANGED <<clipvars, wlvars, keyvars, toolvars, opvars>>

\* process_option_thread (lines 479-549): the provider's round trip ends, with a
\* response delivered to replace_text on the event loop, or with a failure.
ProviderReturns ==
    /\ running
    /\ MainFree
    /\ \E p \in DOMAIN pipelines, responds \in BOOLEAN :
        /\ pipelines[p] = "provider"
        /\ pipelines' = [pipelines EXCEPT ![p] = IF responds THEN "replace" ELSE "none"]
    /\ UNCHANGED <<now, recent_triggers, last_hotkey_time, hotkey_processing, running,
                   outcome, capture, trig, prev_trigger, prev_accepted, checks, spam,
                   popup_captures>>
    /\ UNCHANGED <<clipvars, wlvars, keyvars, toolvars, opvars>>

\* replace_text (lines 567-627) returns to the event loop.
ReplaceReturns ==
    /\ running
    /\ \E p \in DOMAIN pipelines :
        /\ pipelines[p] = "replace"
        /\ pipelines' = [pipelines EXCEPT ![p] = "none"]
    /\ UNCHANGED <<now, recent_triggers, last_hotkey_time, hotkey_processing, running,
                   outcome, capture, trig, prev_trigger, prev_accepted, checks, spam,
                   popup_captures>>
    /\ UNCHANGED <<clipvars, wlvars, keyvars, toolvars, opvars>>

----------------------------------------------------------------------------
(* _try_ydotool_key_typing: the key-event sequence                         *)

\* line 1295: max_length
max_length == 2000
\* line 1442: max_sequence_length
max_sequence_length == 10000
\* line 1447: a delay follows every key event whose index is a multiple of it
delay_interval == 10

\* The delay marker appended to delayed_sequence (line 1448).
DelayMarker == <<"5">>

\* char_to_keycode (lines 1319-1423), restricted to the characters of KeyAlphabet.
char_to_keycode ==
    [c \in {"a", "b", "A", " ", "!"} |->
        CASE c = "a" -> "30"
          [] c = "b" -> "48"
          [] c = "A" -> "30"
          [] c = " " -> "57"
          [] c = "!" -> "2"]

\* The characters of t that have a keycode (the others are skipped, line 1432).
Supported(t) == SelectSeq(t, LAMBDA c : c \in DOMAIN char_to_keycode)

\* Characters of the modelled texts; "é" has no entry in char_to_keycode.
KeyAlphabet == {"a", "b", "A", " ", "!", "é"}

\* Bounds of the model: length of the texts typed, and length of the patterns
\* the texts repeat.
MaxKeyLen == 24
MaxPatternLen == 2

Patterns == UNION {[1..k -> KeyAlphabet] : k \in 1..MaxPatternLen}
Cycle(p, n) == [i \in 1..n |-> p[((i - 1) % Len(p)) + 1]]
KeyTexts == {Cycle(p, n) : p \in Patterns, n \in 0..MaxKeyLen}

\* lines 1296-1300: text[:max_length]
Truncate(t) == IF Len(t) > max_length THEN SubSeq(t, 1, max_length) ELSE t

\* lines 1425-1434: press and release of each character that has a keycode.
RECURSIVE BuildKeySequence(_)
BuildKeySequence(t) ==
    IF t = <<>> THEN <<>>
    ELSE LET char == Head(t) IN
         (IF char \in DOMAIN char_to_keycode
          THEN << <<char_to_keycode[char], "1">>, <<char_to_keycode[char], "0">> >>
          ELSE <<>>)
         \o BuildKeySequence(Tail(t))

\* line 1447: the test for a delay after the key event of (0-based) index i
DelayAfter_M(i) == i % delay_interval = 0
DelayAfter(i) == i > 0 /\ i % delay_interval = 0

\* lines 1440-1455: the loop over key_sequence, from the (0-based) index i, with
\* acc the delayed_sequence built so far.
RECURSIVE BuildDelayedSequence(_, _, _)
BuildDelayedSequence(ks, i, acc) ==
    IF i >= Len(ks) THEN acc
    ELSE LET a1 == Append(acc, ks[i + 1])
             a2 == IF DelayAfter(i) THEN Append(a1, DelayMarker) ELSE a1
         IN IF Len(a2) > max_sequence_length THEN a2
            ELSE BuildDelayedSequence(ks, i + 1, a2)

\* Outcomes of subprocess.run(["ydotool", "key"] + delayed_sequence) (lines 1462-1496).
YdotoolOutcomes == {"rc0", "rc1", "timeout", "error"}

\* _try_ydotool_key_typing(text) (lines 1269-1496).
TryYdotoolKeyTyping ==
    /\ key_ret = "none"
    /\ LET t == Truncate(key_text)
           ks == BuildKeySequence(t)
           ds == BuildDelayedSequence(ks, 0, <<>>)
       IN /\ key_sequence' = ks
          /\ IF ks = <<>>
             THEN /\ delayed_sequence' = <<>>
                  /\ key_ret' = "False"
             ELSE /\ delayed_sequence' = ds
                  /\ IF Len(ds) > max_sequence_length
                     THEN key_ret' = "False"
                     ELSE \E o \in YdotoolOutcomes :
                            key_ret' = IF o = "rc0" THEN "True" ELSE "False"
    /\ UNCHANGED key_text
    /\ UNCHANGED <<clipvars, wlvars, hotvars, opvars, toolvars>>

----------------------------------------------------------------------------
(* The paste simulation cascades: WaylandBackend._simulate_paste_best_effort *)
(* and WritingToolApp._try_paste_simulation                                  *)

SimCascades == {"_simulate_paste_best_effort", "_try_paste_simulation"}

\* The methods list each cascade builds, by desktop (XDG_CURRENT_DESKTOP = "kde" or not).
SimMethods(cascade, is_kde) ==
    IF cascade = "_simulate_paste_best_effort"
    THEN <<"ydotool", "dotool", "enhanced_wtype", "kde_specific", "ydot", "pykeyboard">>
    ELSE IF is_kde
    THEN <<"kdotool", "ydotool", "dotool", "wtype", "ydot", "pykeyboard">>
    ELSE <<"ydotool", "dotool", "wtype", "kdotool", "ydot", "pykeyboard">>

\* What a candidate's method returns: True after a command with return code 0,
\* False when the tool is not installed or every command failed.
\* _try_pykeyboard_paste has no return statement.
SimReturns(m) == IF m = "pykeyboard" THEN {"None"} ELSE {"True", "False"}

\* Candidates whose subprocess timeouts add up to more than the join timeout.
SimCanOutlastJoin(m) == m \notin {"ydot", "pykeyboard"}

\* The cascade is called: the methods list is built.
SimulatePaste ==
    /\ sim_pc = "none"
    /\ \E cascade \in SimCascades, is_kde \in BOOLEAN :
        /\ sim_methods' = SimMethods(cascade, is_kde)
        /\ op' = cascade
    /\ sim_i' = 1
    /\ sim_threads' = [i \in DOMAIN sim_methods' |-> "none"]
    /\ sim_log' = <<>>
    /\ sim_pc' = "start"
    /\ UNCHANGED <<session, clipboard, selection, pc, text, clipboard_backup, ret, raised,
                   clip0, combo_clip, output_queue, has_response_window, message>>
    /\ UNCHANGED <<wlvars, hotvars, keyvars, opvars, typevars, ydvars, subvars, cgvars, tgtvars, provvars>>

\* thread = threading.Thread(target=method); thread.start()
SimThreadStart ==
    /\ sim_pc = "start"
    /\ sim_threads' = [sim_threads EXCEPT ![sim_i] = "running"]
    /\ sim_pc' = "join"
    /\ UNCHANGED <<sim_methods, sim_i, sim_log>>
    /\ UNCHANGED <<clipvars, wlvars, hotvars, keyvars, opvars, typevars, ydvars, subvars, cgvars, tgtvars, provvars>>

\* A candidate's method returns on its thread.
SimMethodReturns ==
    /\ \E i \in DOMAIN sim_threads :
        /\ sim_threads[i] = "running"
        /\ \E r \in SimReturns(sim_methods[i]) :
            sim_threads' = [sim_threads EXCEPT ![i] = r]
    /\ UNCHANGED <<sim_pc, sim_methods, sim_i, sim_log>>
    /\ UNCHANGED <<clipvars, wlvars, hotvars, keyvars, opvars, typevars, ydvars, subvars, cgvars, tgtvars, provvars>>

\* thread.join(timeout=...) returns; `if not thread.is_alive(): return`, else the
\* loop goes on to the next method.
SimJoin ==
    /\ sim_pc = "join"
    /\ sim_threads[sim_i] = "running" => SimCanOutlastJoin(sim_methods[sim_i])
    /\ LET alive == sim_threads[sim_i] = "running"
           last == sim_i = Len(sim_methods)
       IN /\ sim_log' = Append(sim_log, IF alive THEN "timed out" ELSE "completed")
          /\ sim_pc' = IF alive /\ ~last THEN "start" ELSE "returned"
          /\ sim_i' = IF alive /\ ~last THEN sim_i + 1 ELSE sim_i
    /\ UNCHANGED <<sim_methods, sim_threads>>
    /\ UNCHANGED <<clipvars, wlvars, hotvars, keyvars, opvars, typevars, ydvars, subvars, cgvars, tgtvars, provvars>>

----------------------------------------------------------------------------
(* _try_type_directly and _try_chunked_typing                              *)

\* max_length of _try_type_directly (line 854)
type_max_length == 500
\* chunk_size of _try_chunked_typing (line 901)
chunk_size == 200

\* Bound of the model: the texts are up to this much shorter or longer than type_max_length.
TypeMargin == 1

TypeLens == {0, 1} \cup ((type_max_length - TypeMargin)..(type_max_length + TypeMargin))
TypeTexts == {Cycle(p, n) : p \in Patterns, n \in TypeLens}

\* chunks = [text[i : i + chunk_size] for i in range(0, len(text), chunk_size)], as lengths
ChunkLens(n) ==
    [k \in 1..((n + chunk_size - 1) \div chunk_size) |->
        IF k * chunk_size <= n THEN chunk_size ELSE n - (k - 1) * chunk_size]

\* _try_chunked_typing (lines 893-929): one `ydotool type` per chunk, until one fails.
\* stop = 0: every chunk is typed; stop = k: the command of chunk k fails.
ChunkedTyping(t, stop) ==
    LET lens == ChunkLens(Len(t))
        run == IF stop = 0 THEN Len(lens) ELSE stop
    IN [log |-> [k \in 1..run |-> <<"ydotool type", lens[k]>>],
        ret |-> IF stop = 0 THEN "True" ELSE "False"]

\* len(key_sequence) after lines 1425-1434: two events per character that has a keycode
KeySequenceLength(t) ==
    2 * Cardinality({i \in DOMAIN t : t[i] \in DOMAIN char_to_keycode})

\* len(delayed_sequence) after the loop of lines 1444-1455 over n key events, when
\* the loop is not cut short: a delay follows each event of index 10, 20, ...
DelayedSequenceLength(n) ==
    n + Cardinality({i \in 0..(n - 1) : DelayAfter(i)})

\* _try_ydotool_key_typing(text) as _try_type_directly sees it: the `ydotool key`
\* command it runs, if it gets that far, and the value it returns.
KeyTyping(t, o) ==
    LET n == KeySequenceLength(Truncate(t))
        runs == n > 0 /\ DelayedSequenceLength(n) <= max_sequence_length
        r == IF runs /\ o = "rc0" THEN 1 ELSE 0
    IN [log |-> (IF runs THEN << <<"ydotool key", DelayedSequenceLength(n)>> >> ELSE <<>>)
                    \o << <<"key typing returned", r>> >>,
        ret |-> IF r = 1 THEN "True" ELSE "False"]

\* Texts longer than max_length go to _try_chunked_typing (lines 855-857).
TooLongForKeys(t) == Len(t) > type_max_length

\* _try_type_directly(text), lines 846-891
TryTypeDirectly ==
    /\ td_ret = "none"
    /\ IF TooLongForKeys(td_text)
       THEN \E stop \in 0..Len(ChunkLens(Len(td_text))) :
               LET c == ChunkedTyping(td_text, stop) IN
               /\ td_log' = c.log
               /\ td_ret' = c.ret
       ELSE \E o \in YdotoolOutcomes, o2 \in YdotoolOutcomes :
               LET k == KeyTyping(td_text, o) IN
               IF k.ret = "True"
               THEN /\ td_log' = k.log
                    /\ td_ret' = "True"
               ELSE /\ td_log' = Append(k.log, <<"ydotool type", Len(td_text)>>)
                    /\ td_ret' = IF o2 = "rc0" THEN "True" ELSE "False"
    /\ UNCHANGED td_text
    /\ UNCHANGED <<simvars, ydvars, subvars, cgvars, tgtvars, provvars>>
    /\ UNCHANGED <<clipvars, wlvars, hotvars, keyvars, opvars>>

----------------------------------------------------------------------------
(* _try_ydotool_paste and _try_ydotool_paste_enhanced                      *)

YdFunctions == {"_try_ydotool_paste", "_try_ydotool_paste_enhanced"}

\* ydotool_methods (lines 1554-1565) and enhanced_methods (lines 1070-1079)
YdCommands(fn) ==
    IF fn = "_try_ydotool_paste"
    THEN <<"key ctrl+v", "key ctrl:1 v:1 ctrl:0 v:0", "key --delay 50 ctrl+v",
           "type --key ctrl+v", "key --key ctrl+v">>
    ELSE <<"key --delay 100 ctrl+v", "key ctrl:1 v:1 ctrl:0 v:0", "key ctrl+v",
           "key --delay 200 ctrl+v">>

\* How a command of the loop ends: return code 0, a non-zero return code with
\* "failed to connect socket" on stderr, another non-zero return code, a timeout.
YdOutcomes == {"rc0", "socket", "rc1", "timeout"}

\* The test guarding the daemon restart after a failed command of (0-based) index i:
\* line 1585 in _try_ydotool_paste, line 1121 in _try_ydotool_paste_enhanced.
YdRestarts(fn, o, i) ==
    IF fn = "_try_ydotool_paste" THEN o = "socket" /\ i = 0 ELSE o = "socket"

\* Bound of the model: ydotoold processes running at the same time.
MaxDaemons == 2

\* How the daemon check ends (lines 1523-1536, 1049-1057): the socket file
\* /run/user/<uid>/.ydotool_socket exists and `ydotool debug` returns 0 within its
\* 1-second timeout; the socket file is not at that path; the command returns
\* non-zero; the command times out (TimeoutExpired, swallowed by the except clause).
YdProbes == {"rc0", "no_socket_file", "rc1", "timeout"}

\* daemon_running after the check.  Without a daemon the probe cannot return 0.
DaemonDetected(daemons, probe) == daemons > 0 /\ probe = "rc0"

\* The call, up to the loop: `ydotool help`, the daemon check, ydotoold started
\* when the daemon does not answer (lines 1509-1551, 1035-1067).
YdotoolPaste ==
    /\ yd_fn = "none"
    /\ yd_daemons < MaxDaemons
    /\ \E fn \in YdFunctions, help_ok \in BOOLEAN, probe \in YdProbes, popen_ok \in BOOLEAN :
        LET daemon_running == DaemonDetected(yd_daemons, probe) IN
        /\ yd_fn' = fn
        /\ yd_log' = IF help_ok /\ ~daemon_running /\ popen_ok
                     THEN << <<"spawn", 0>> >> ELSE <<>>
        /\ yd_daemons' = IF help_ok /\ ~daemon_running /\ popen_ok
                         THEN yd_daemons + 1 ELSE yd_daemons
        /\ yd_ret' = IF help_ok /\ (daemon_running \/ popen_ok) THEN "none" ELSE "False"
        /\ yd_i' = IF help_ok /\ (daemon_running \/ popen_ok) THEN 1 ELSE 0
    /\ UNCHANGED <<simvars, typevars, subvars, cgvars, tgtvars, provvars>>
    /\ UNCHANGED <<clipvars, wlvars, hotvars, keyvars, opvars>>

\* One iteration of the loop over the commands (lines 1567-1612, 1081-1141): the
\* focus check of the enhanced variant, the command, and the restart of the daemon.
YdCommand ==
    /\ yd_fn # "none"
    /\ yd_ret = "none"
    /\ \E o \in YdOutcomes, no_active_window \in BOOLEAN, respawn_ok \in BOOLEAN :
        LET last == yd_i = Len(YdCommands(yd_fn))
            focus == IF yd_fn = "_try_ydotool_paste_enhanced" /\ no_active_window
                     THEN << <<"windowactivate", yd_i>> >> ELSE <<>>
            restart == IF YdRestarts(yd_fn, o, yd_i - 1)
                       THEN << <<"restart", yd_i>> >> ELSE <<>>
        IN /\ yd_fn = "_try_ydotool_paste" => ~no_active_window
           /\ yd_log' = yd_log \o focus \o << <<"run", yd_i>> >> \o restart
           /\ yd_daemons' = IF restart = <<>> THEN yd_daemons
                            ELSE IF respawn_ok THEN 1 ELSE 0
           /\ yd_ret' = IF o = "rc0" THEN "True" ELSE IF last THEN "False" ELSE "none"
           /\ yd_i' = IF o # "rc0" /\ ~last THEN yd_i + 1 ELSE yd_i
    /\ UNCHANGED yd_fn
    /\ UNCHANGED <<simvars, typevars, subvars, cgvars, tgtvars, provvars>>
    /\ UNCHANGED <<clipvars, wlvars, hotvars, keyvars, opvars>>

----------------------------------------------------------------------------
(* The subprocess invocations of an activation on a Wayland session        *)

\* The subprocess.run calls of WaylandBackend.get_active_window_title (with its
\* per-desktop helpers), of WaylandBackend.get_selected_text and of
\* _try_ydotool_paste_enhanced, in program order.  timeout is the timeout=
\* argument in tenths of a second, 0 when the call has none; ok and fail are the
\* next invocation after a return code 0 and after a failure (0: the activation
\* makes no further invocation).
SubCalls == <<
    [line |-> 27,   cmd |-> "wlrctl toplevel list",      timeout |-> 0,  ok |-> 11, fail |-> 2],
    [line |-> 85,   cmd |-> "kwin5 activewindow",        timeout |-> 0,  ok |-> 3,  fail |-> 4],
    [line |-> 88,   cmd |-> "kwin5 windowtitle",         timeout |-> 0,  ok |-> 11, fail |-> 4],
    [line |-> 100,  cmd |-> "qdbus org.kde.KWin",        timeout |-> 0,  ok |-> 11, fail |-> 5],
    [line |-> 112,  cmd |-> "qdbus org.kde.kwin",        timeout |-> 0,  ok |-> 11, fail |-> 6],
    [line |-> 132,  cmd |-> "gdbus call org.Cinnamon",   timeout |-> 0,  ok |-> 11, fail |-> 7],
    [line |-> 165,  cmd |-> "xfconf-query",              timeout |-> 0,  ok |-> 11, fail |-> 8],
    [line |-> 180,  cmd |-> "swaymsg -t get_tree",       timeout |-> 0,  ok |-> 11, fail |-> 9],
    [line |-> 207,  cmd |-> "riverctl list-focused-tags", timeout |-> 0, ok |-> 11, fail |-> 10],
    [line |-> 231,  cmd |-> "wayfire-socket-client",     timeout |-> 0,  ok |-> 11, fail |-> 11],
    [line |-> 273,  cmd |-> "wl-paste --primary",        timeout |-> 0,  ok |-> 13, fail |-> 12],
    [line |-> 277,  cmd |-> "wl-paste",                  timeout |-> 0,  ok |-> 13, fail |-> 0],
    [line |-> 1037, cmd |-> "ydotool help",              timeout |-> 20, ok |-> 14, fail |-> 0],
    [line |-> 1051, cmd |-> "ydotool debug",             timeout |-> 10, ok |-> 15, fail |-> 15],
    [line |-> 1090, cmd |-> "ydotool getactivewindow",   timeout |-> 10, ok |-> 16, fail |-> 16],
    [line |-> 1106, cmd |-> "ydotool key ctrl+v",        timeout |-> 50, ok |-> 0,  fail |-> 17],
    [line |-> 1123, cmd |-> "pkill -f ydotoold",         timeout |-> 0,  ok |-> 0,  fail |-> 0] >>

\* How an external process behaves: it exits with return code 0, it fails (a
\* non-zero return code, or the tool is missing or not tried on this desktop), or
\* it never exits.
SubBehaviours == {"rc0", "fail", "never exits"}

\* What subprocess.run does with a process that never exits: TimeoutExpired
\* after the timeout, when the call has one.
HasTimeout(call) == call.timeout > 0

\* The hotkey is pressed: the activation begins to probe the window title.
Activation ==
    /\ sub_state = "idle"
    /\ sub_i' = 1
    /\ sub_state' = "calling"
    /\ sub_log' = <<>>
    /\ UNCHANGED <<simvars, typevars, ydvars, cgvars, tgtvars, provvars>>
    /\ UNCHANGED <<clipvars, wlvars, hotvars, keyvars, opvars>>

\* One subprocess.run call of the activation.
SubprocessRun ==
    /\ sub_state = "calling"
    /\ \E b \in SubBehaviours :
        LET call == SubCalls[sub_i]
            res == IF b # "never exits" THEN b
                   ELSE IF HasTimeout(call) THEN "TimeoutExpired" ELSE "no return"
            nxt == IF res = "rc0" THEN call.ok ELSE call.fail
        IN /\ sub_log' = Append(sub_log, <<sub_i, res>>)
           /\ IF res = "no return"
              THEN sub_state' = "hung" /\ UNCHANGED sub_i
              ELSE /\ sub_i' = nxt
                   /\ sub_state' = IF nxt = 0 THEN "done" ELSE "calling"
    /\ UNCHANGED <<simvars, typevars, ydvars, cgvars, tgtvars, provvars>>
    /\ UNCHANGED <<clipvars, wlvars, hotvars, keyvars, opvars>>

\* The activation is over; the next one can begin.
ActivationEnds ==
    /\ sub_state = "done"
    /\ sub_state' = "idle"
    /\ sub_i' = 0
    /\ UNCHANGED sub_log
    /\ UNCHANGED <<simvars, typevars, ydvars, cgvars, tgtvars, provvars>>
    /\ UNCHANGED <<clipvars, wlvars, hotvars, keyvars, opvars>>

----------------------------------------------------------------------------
(* Which thread executes the capture, replace and injection code           *)

\* The slots the event loop runs: on_hotkey_pressed and replace_text are connected
\* to signals of the application object (lines 56-58), _show_popup is invoked
\* through a queued connection (lines 343-345), process_option is called by the
\* popup's buttons.
Slots == {"on_hotkey_pressed", "_show_popup", "replace_text", "process_option", "show_message_box"}

\* The slots run for an event from outside the application: the hotkey listener's
\* signal and a button of the popup.
Triggers == {"on_hotkey_pressed", "process_option"}

\* The event-loop thread, and a thread started with threading.Thread.
Threads == {"event_loop", "worker"}

\* The calls between the functions of the capture, replace and injection code:
\* how = "call" runs the callee on the caller's thread, how = "thread" starts a
\* threading.Thread with the callee as target, how = "signal" emits a signal of the
\* application object or queues an invocation, which the event loop delivers to
\* the slot (a signal emitted on the event-loop thread itself runs the slot at
\* once, as a call).  on is the session type on which the call is made.  The
\* lines of the providers' get_response are lines of aiprovider.py.
CallGraph == {
    [from |-> "on_hotkey_pressed", to |-> "show_message_box", line |-> 332, how |-> "call", on |-> "any"],
    [from |-> "on_hotkey_pressed", to |-> "_show_popup", line |-> 343, how |-> "signal", on |-> "any"],
    [from |-> "process_option_thread", to |-> "show_message_box", line |-> 491, how |-> "signal", on |-> "any"],
    [from |-> "process_option_thread", to |-> "GeminiProvider.get_response", line |-> 537, how |-> "call", on |-> "any"],
    [from |-> "process_option_thread", to |-> "OpenAICompatibleProvider.get_response", line |-> 537, how |-> "call", on |-> "any"],
    [from |-> "process_option_thread", to |-> "OllamaProvider.get_response", line |-> 537, how |-> "call", on |-> "any"],
    [from |-> "GeminiProvider.get_response", to |-> "replace_text", line |-> 375, how |-> "signal", on |-> "any"],
    [from |-> "GeminiProvider.get_response", to |-> "replace_text", line |-> 376, how |-> "call", on |-> "any"],
    [from |-> "OpenAICompatibleProvider.get_response", to |-> "replace_text", line |-> 490, how |-> "signal", on |-> "any"],
    [from |-> "OllamaProvider.get_response", to |-> "replace_text", line |-> 563, how |-> "signal", on |-> "any"],
    [from |-> "on_hotkey_pressed", to |-> "X11Backend.get_active_window_title", line |-> 327, how |-> "call", on |-> "x11"],
    [from |-> "on_hotkey_pressed", to |-> "WaylandBackend.get_active_window_title", line |-> 327, how |-> "call", on |-> "wayland"],
    [from |-> "on_hotkey_pressed", to |-> "X11Backend.get_selected_text", line |-> 328, how |-> "call", on |-> "x11"],
    [from |-> "on_hotkey_pressed", to |-> "WaylandBackend.get_selected_text", line |-> 328, how |-> "call", on |-> "wayland"],
    [from |-> "_show_popup", to |-> "get_selected_text", line |-> 357, how |-> "call", on |-> "any"],
    [from |-> "get_selected_text", to |-> "X11Backend.get_selected_text", line |-> 424, how |-> "call", on |-> "x11"],
    [from |-> "get_selected_text", to |-> "WaylandBackend.get_selected_text", line |-> 424, how |-> "call", on |-> "wayland"],
    [from |-> "process_option", to |-> "process_option_thread", line |-> 473, how |-> "thread", on |-> "any"],
    [from |-> "replace_text", to |-> "_handle_wayland_paste", line |-> 616, how |-> "call", on |-> "wayland"],
    [from |-> "replace_text", to |-> "_handle_x11_paste", line |-> 619, how |-> "call", on |-> "x11"],
    [from |-> "_handle_wayland_paste", to |-> "get_clipboard", line |-> 654, how |-> "thread", on |-> "any"],
    [from |-> "_handle_wayland_paste", to |-> "_store_original_window", line |-> 693, how |-> "call", on |-> "any"],
    [from |-> "_handle_wayland_paste", to |-> "_try_comprehensive_replacement", line |-> 696, how |-> "call", on |-> "any"],
    [from |-> "_handle_wayland_paste", to |-> "_try_comprehensive_paste", line |-> 709, how |-> "call", on |-> "any"],
    [from |-> "_handle_wayland_paste", to |-> "restore_clipboard", line |-> 737, how |-> "thread", on |-> "any"],
    [from |-> "_try_comprehensive_replacement", to |-> "_try_type_directly", line |-> 821, how |-> "call", on |-> "any"],
    [from |-> "_try_comprehensive_replacement", to |-> "_try_key_sequence", line |-> 823, how |-> "call", on |-> "any"],
    [from |-> "_try_type_directly", to |-> "_try_chunked_typing", line |-> 857, how |-> "call", on |-> "any"],
    [from |-> "_try_type_directly", to |-> "_try_ydotool_key_typing", line |-> 863, how |-> "call", on |-> "any"],
    [from |-> "_try_comprehensive_paste", to |-> "run_method", line |-> 1007, how |-> "thread", on |-> "any"],
    [from |-> "run_method", to |-> "_try_ydotool_paste_enhanced", line |-> 1002, how |-> "call", on |-> "any"],
    [from |-> "run_method", to |-> "_try_dotool_paste", line |-> 1002, how |-> "call", on |-> "any"],
    [from |-> "run_method", to |-> "_try_wtype_paste", line |-> 1002, how |-> "call", on |-> "any"],
    [from |-> "run_method", to |-> "_try_pykeyboard_paste", line |-> 1002, how |-> "call", on |-> "any"] }

\* The time.sleep calls of those functions: function and source line.
Sleeps == {
    <<"X11Backend.get_selected_text", 26>>,
    <<"_handle_wayland_paste", 686>>,
    <<"_try_comprehensive_replacement", 816>>,
    <<"_try_comprehensive_replacement", 838>>,
    <<"_try_type_directly", 880>>,
    <<"_try_chunked_typing", 921>>,
    <<"_try_key_sequence", 948>>,
    <<"_try_comprehensive_paste", 1014>>,
    <<"_try_ydotool_paste_enhanced", 1064>>,
    <<"_handle_x11_paste", 1160>>,
    <<"_try_ydotool_key_typing", 1482>> }

\* The assignments to state shared between the threads: function, attribute, line.
Writes == {
    <<"on_hotkey_pressed", "output_queue", 317>>,
    <<"process_option", "chat_history", 459>>,
    <<"process_option_thread", "output_queue", 504>>,
    <<"process_option_thread", "chat_history", 521>>,
    <<"replace_text", "output_queue", 575>>,
    <<"replace_text", "chat_history", 604>> }

\* The thread that runs the target of an edge.
ThreadOf(how, caller_thread) == IF how = "thread" THEN "worker" ELSE caller_thread

\* replace_text goes on to its queue and its paste handlers when new_text is
\* a string (line 574): it is, when the function runs as the slot of
\* output_ready_signal, and is not in the call replace_text(True) of aiprovider.py 376.
StringArgument(stack) == stack[Len(stack)] = "replace_text" => Len(stack) = 1

\* The event loop, idle, runs a slot: one triggered from outside, or one whose
\* signal is pending.
SlotRuns ==
    /\ cg_stack["event_loop"] = <<>>
    /\ \E slot \in Slots :
        /\ slot \in Triggers \cup cg_queue
        /\ cg_stack' = [cg_stack EXCEPT !["event_loop"] = <<slot>>]
        /\ cg_queue' = cg_queue \ {slot}
    /\ UNCHANGED <<cg_sleeping, cg_writing>>
    /\ UNCHANGED <<simvars, typevars, ydvars, subvars, tgtvars, provvars>>
    /\ UNCHANGED <<clipvars, wlvars, hotvars, keyvars, opvars>>

\* The function a thread is running calls another one, starts a thread on it
\* (one started thread is followed at a time), or emits the signal connected to it.
Calls ==
    /\ \E t \in Threads, e \in CallGraph :
        /\ cg_stack[t] # <<>>
        /\ cg_sleeping[t] = 0
        /\ cg_writing[t] = "none"
        /\ e.from = cg_stack[t][Len(cg_stack[t])]
        /\ e.on \in {"any", session}
        /\ StringArgument(cg_stack[t])
        /\ e.how = "thread" => cg_stack[ThreadOf(e.how, t)] = <<>>
        /\ cg_stack' =
            IF e.how = "signal" THEN cg_stack
            ELSE [cg_stack EXCEPT ![ThreadOf(e.how, t)] = Append(@, e.to)]
        /\ cg_queue' = IF e.how = "signal" THEN cg_queue \cup {e.to} ELSE cg_queue
    /\ UNCHANGED <<cg_sleeping, cg_writing>>
    /\ UNCHANGED <<simvars, typevars, ydvars, subvars, tgtvars, provvars>>
    /\ UNCHANGED <<clipvars, wlvars, hotvars, keyvars, opvars>>

\* The function a thread is running calls time.sleep, or the sleep ends.
SleepRuns ==
    /\ \E t \in Threads :
        /\ cg_stack[t] # <<>>
        /\ cg_writing[t] = "none"
        /\ IF cg_sleeping[t] = 0
           THEN \E sl \in Sleeps :
                /\ sl[1] = cg_stack[t][Len(cg_stack[t])]
                /\ cg_sleeping' = [cg_sleeping EXCEPT ![t] = sl[2]]
           ELSE cg_sleeping' = [cg_sleeping EXCEPT ![t] = 0]
    /\ UNCHANGED <<cg_stack, cg_queue, cg_writing>>
    /\ UNCHANGED <<simvars, typevars, ydvars, subvars, tgtvars, provvars>>
    /\ UNCHANGED <<clipvars, wlvars, hotvars, keyvars, opvars>>

\* The function a thread is running assigns one of the shared attributes, or is
\* done with it.
WriteRuns ==
    /\ \E t \in Threads :
        /\ cg_stack[t] # <<>>
        /\ cg_sleeping[t] = 0
        /\ IF cg_writing[t] = "none"
           THEN \E w \in Writes :
                /\ w[1] = cg_stack[t][Len(cg_stack[t])]
                /\ StringArgument(cg_stack[t])
                /\ cg_writing' = [cg_writing EXCEPT ![t] = w[2]]
           ELSE cg_writing' = [cg_writing EXCEPT ![t] = "none"]
    /\ UNCHANGED <<cg_stack, cg_queue, cg_sleeping>>
    /\ UNCHANGED <<simvars, typevars, ydvars, subvars, tgtvars, provvars>>
    /\ UNCHANGED <<clipvars, wlvars, hotvars, keyvars, opvars>>

\* The function a thread is running returns to its caller; the outermost one
\* ends the slot, or the thread.
FunctionReturns ==
    /\ \E t \in Threads :
        /\ cg_stack[t] # <<>>
        /\ cg_sleeping[t] = 0
        /\ cg_writing[t] = "none"
        /\ cg_stack' = [cg_stack EXCEPT ![t] = SubSeq(@, 1, Len(@) - 1)]
    /\ UNCHANGED <<cg_queue, cg_sleeping, cg_writing>>
    /\ UNCHANGED <<simvars, typevars, ydvars, subvars, tgtvars, provvars>>
    /\ UNCHANGED <<clipvars, wlvars, hotvars, keyvars, opvars>>

----------------------------------------------------------------------------
(* The provider request: process_option, process_option_thread and the      *)
(* providers' get_response (aiprovider.py)                                   *)

Providers == {"GeminiProvider", "OpenAICompatibleProvider", "OllamaProvider"}

\* What can go wrong in a request: the call of the API raises, or the response
\* that came back cannot be read (no text in it).
ProviderFaults == {"none", "request", "response"}

\* aiprovider.py line 381
gemini_error_text ==
    <<"A","n"," ","e","r","r","o","r"," ","o","c","c","u","r","r","e","d"," ","w",
      "h","i","l","e"," ","p","r","o","c","e","s","s","i","n","g"," ","t","h","e",
      " ","r","e","s","p","o","n","s","e",".">>

\* aiprovider.py line 567
ollama_error_text ==
    <<"A","n"," ","e","r","r","o","r"," ","o","c","c","u","r","r","e","d"," ","d",
      "u","r","i","n","g"," ","O","l","l","a","m","a"," ","c","h","a","t",".">>

ErrorDescriptions == {gemini_error_text, ollama_error_text}

OutputReady(t) == [signal |-> "output_ready", text |-> t, message |-> NoMessage]

ShowMessage(title, body) == [signal |-> "show_message", text |-> NoText, message |-> <<title, body>>]

SetText(t) == [signal |-> "set_text", text |-> t, message |-> NoMessage]

\* get_response of the three providers: the signals it emits, what it returns
\* and whether it raises.  response is the text the API sent, window is
\* hasattr(self.app, 'current_response_window').
get_response(provider, fault, response, return_response, window) ==
    LET response_text == IF provider = "GeminiProvider" THEN rstrip_nl(response)
                         ELSE strip(response)
        answered == [emits |-> IF ~return_response /\ ~window
                               THEN <<OutputReady(response_text)>> ELSE <<>>,
                     ret |-> IF provider = "GeminiProvider" /\ ~return_response /\ ~window
                             THEN NoText ELSE response_text,
                     raises |-> FALSE]
    IN IF fault = "none" THEN answered
       ELSE IF provider = "GeminiProvider"
       THEN IF fault = "request"
            THEN [emits |-> <<>>, ret |-> NoText, raises |-> TRUE]
            ELSE [emits |-> <<OutputReady(gemini_error_text)>>, ret |-> NoText, raises |-> FALSE]
       ELSE IF provider = "OpenAICompatibleProvider"
       THEN [emits |-> <<ShowMessage("Error", "An error occurred")>>, ret |-> NoText,
             raises |-> FALSE]
       ELSE [emits |-> <<OutputReady(ollama_error_text)>>, ret |-> NoText, raises |-> FALSE]

\* process_option, run by the event loop for a button of the popup: the
\* response window is opened or forgotten, and the thread is started.
ProcessOptionStarts ==
    /\ pc = "idle"
    /\ prov_request = NoRequest
    /\ prov_signals = <<>>
    /\ \E provider \in Providers, fault \in ProviderFaults,
          custom \in BOOLEAN, empty \in BOOLEAN, open_in_window \in BOOLEAN :
        LET in_window == (custom /\ empty) \/ open_in_window IN
        /\ has_response_window' = in_window
        /\ prov_request' = [provider |-> provider, fault |-> fault,
                            open_in_window |-> in_window, no_text |-> empty /\ ~custom]
    /\ UNCHANGED <<session, clipboard, selection, pc, op, text, clipboard_backup, ret,
                   raised, clip0, combo_clip, output_queue, message>>
    /\ UNCHANGED <<wlvars, hotvars, keyvars, opvars>>
    /\ UNCHANGED prov_signals
    /\ UNCHANGED <<simvars, typevars, ydvars, subvars, cgvars, tgtvars>>

\* process_option_thread, on the thread process_option started.
ProcessOptionThread ==
    /\ prov_request # NoRequest
    /\ IF prov_request.no_text
       THEN /\ prov_signals' = Append(prov_signals,
                    ShowMessage("Error", "Please select text to use this option."))
            /\ UNCHANGED output_queue
       ELSE \E response \in NewTexts :
            LET r == get_response(prov_request.provider, prov_request.fault, response,
                                  prov_request.open_in_window, has_response_window)
            IN /\ output_queue' = NoText
               /\ prov_signals' = prov_signals \o r.emits \o
                    (IF r.raises THEN <<ShowMessage("Error", "An error occurred")>>
                     ELSE IF prov_request.open_in_window THEN <<SetText(r.ret)>>
                     ELSE <<>>)
    /\ prov_request' = NoRequest
    /\ UNCHANGED <<session, clipboard, selection, pc, op, text, clipboard_backup, ret,
                   raised, clip0, combo_clip, has_response_window, message>>
    /\ UNCHANGED <<wlvars, hotvars, keyvars, opvars>>
    /\ UNCHANGED <<simvars, typevars, ydvars, subvars, cgvars, tgtvars>>

\* The event loop delivers output_ready_signal: replace_text runs for its text.
OutputReadySlot ==
    /\ prov_signals # <<>>
    /\ Head(prov_signals).signal = "output_ready"
    /\ ReplaceTextSlot(Head(prov_signals).text)
    /\ prov_signals' = Tail(prov_signals)
    /\ UNCHANGED prov_request
    /\ UNCHANGED <<simvars, typevars, ydvars, subvars, cgvars, tgtvars>>

\* The event loop delivers show_message_signal (the message box is shown) or
\* the queued invocation of the response window's set_text.
SignalDelivered ==
    /\ pc = "idle"
    /\ prov_signals # <<>>
    /\ Head(prov_signals).signal # "output_ready"
    /\ message' = IF Head(prov_signals).signal = "show_message"
                  THEN Head(prov_signals).message ELSE message
    /\ prov_signals' = Tail(prov_signals)
    /\ UNCHANGED prov_request
    /\ UNCHANGED <<session, clipboard, selection, pc, op, text, clipboard_backup, ret,
                   raised, clip0, combo_clip, output_queue, has_response_window>>
    /\ UNCHANGED <<wlvars, hotvars, keyvars, opvars>>
    /\ UNCHANGED <<simvars, typevars, ydvars, subvars, cgvars, tgtvars>>

\* The state after construction, on a session of the given type.
InitOn(sess) ==
    /\ session = sess
    /\ clipboard \in ClipTexts
    /\ selection \in SelTexts
    /\ has_response_window \in BOOLEAN
    /\ pc = "idle"
    /\ op = "none"
    /\ text = NoText
    /\ clipboard_backup = NoText
    /\ ret = NoText
    /\ raised = FALSE
    /\ clip0 = NoText
    /\ combo_clip = NoText
    /\ output_queue = NoText
    /\ message = NoMessage
    /\ avail = {}
    /\ bk_thread = "none"
    /\ rs_thread = "none"
    /\ workers = [i \in DOMAIN PasteBackends |-> "none"]
    /\ reported = [i \in DOMAIN PasteBackends |-> "none"]
    /\ invoked = <<>>
    /\ cidx = 0
    /\ midx = 0
    /\ tried = <<>>
    /\ original_window = "unset"
    /\ focused_window \in Windows
    /\ pasted = <<>>
    /\ HotInit
    /\ key_sequence = <<>>
    /\ delayed_sequence = <<>>
    /\ key_ret = "none"
    /\ read_failed = FALSE
    /\ focus0 = "none"
    /\ activated = "none"
    /\ replaced_by = 0
    /\ sim_pc = "none"
    /\ sim_methods = <<>>
    /\ sim_i = 0
    /\ sim_threads = <<>>
    /\ sim_log = <<>>
    /\ td_log = <<>>
    /\ td_ret = "none"
    /\ yd_fn = "none"
    /\ yd_i = 0
    /\ yd_log = <<>>
    /\ yd_ret = "none"
    /\ yd_daemons = 0
    /\ sub_i = 0
    /\ sub_state = "idle"
    /\ sub_log = <<>>
    /\ cg_stack = [t \in Threads |-> <<>>]
    /\ cg_queue = {}
    /\ cg_sleeping = [t \in Threads |-> 0]
    /\ cg_writing = [t \in Threads |-> "none"]
    /\ paste_events = {}
    /\ target_got = NotYet
    /\ prov_request = NoRequest
    /\ prov_signals = <<>>

\* The application on an X11 session (SESSION_TYPE = "x11").
Init == InitOn("x11") /\ key_text = NoText /\ td_text = NoText

Next ==
    \/ ReplaceText
    \/ X11PasteBackup
    \/ X11PasteCopy
    \/ X11PasteCombo
    \/ X11PasteRestore
    \/ ReplaceEnd
    \/ CallX11GetSelectedText
    \/ CallX11GetActiveWindowTitle
    \/ UserCopies
    \/ UserSelects

Spec == Init /\ [][Next]_vars

\* The replace path on an X11 session with the target application handling the
\* paste in its own time; the user leaves the clipboard alone.
InitTarget == Init /\ selection = NoText /\ ~has_response_window

NextTarget ==
    \/ ReplaceText
    \/ X11PasteBackup
    \/ X11PasteCopy
    \/ X11PasteComboSent
    \/ X11PasteRestore
    \/ ReplaceEnd
    \/ TargetHandlesPaste

SpecTarget == InitTarget /\ [][NextTarget]_vars

\* A provider request and what comes of it, on an X11 session.
InitProv == Init /\ selection = NoText

NextProv ==
    \/ ProcessOptionStarts
    \/ ProcessOptionThread
    \/ OutputReadySlot
    \/ SignalDelivered
    \/ X11PasteBackup
    \/ X11PasteCopy
    \/ X11PasteCombo
    \/ X11PasteRestore
    \/ ReplaceEnd

SpecProv == InitProv /\ [][NextProv]_vars

\* The replace path on a Wayland session (SESSION_TYPE = "wayland"); the
\* selection plays no part in it.
InitWl == InitOn("wayland") /\ selection = NoText /\ key_text = NoText /\ td_text = NoText

NextWl ==
    \/ ReplaceText
    \/ WlBackupStart
    \/ WlBackupThread
    \/ WlBackupJoin
    \/ WlSetClipboard
    \/ WlStoreWindow
    \/ WlReplaceBegin
    \/ WlReplaceMethod
    \/ WlCascadeStart
    \/ WlWorkerFinish
    \/ WlCascadeJoin
    \/ WlRestoreStart
    \/ WlRestoreThread
    \/ ReplaceEnd
    \/ UserCopies

SpecWl == InitWl /\ [][NextWl]_vars

\* Direct calls of the Wayland backend's operations.
InitWlCalls == InitOn("wayland") /\ key_text = NoText /\ td_text = NoText

NextWlCalls ==
    \/ CallWaylandGetSelectedText
    \/ CallWaylandPasteText
    \/ CallWaylandGetActiveWindowTitle
    \/ UserCopies
    \/ UserSelects

SpecWlCalls == InitWlCalls /\ [][NextWlCalls]_vars

\* The hotkey handler and the pipelines it starts, on either session type.
InitHot ==
    /\ InitOn("x11") \/ InitOn("wayland")
    /\ clipboard \in ClipTexts
    /\ selection \in SelTexts
    /\ has_response_window = FALSE
    /\ focused_window = "w1"
    /\ key_text = NoText /\ td_text = NoText

NextHot ==
    \/ OnHotkeyPressed
    \/ Tick
    \/ ShowPopup
    \/ ProcessOption
    \/ ProviderReturns
    \/ ReplaceReturns

SpecHot == InitHot /\ [][NextHot]_vars

\* The same handler followed over the length of the spam window.
InitSpam ==
    /\ InitOn("x11") \/ InitOn("wayland")
    /\ clipboard = NoText
    /\ selection \in SelTexts
    /\ has_response_window = FALSE
    /\ focused_window = "w1"
    /\ key_text = NoText /\ td_text = NoText

NextSpam ==
    \/ OnHotkeyPressed
    \/ LongTick
    \/ ShowPopup
    \/ ProcessOption
    \/ ProviderReturns
    \/ ReplaceReturns

SpecSpam == InitSpam /\ [][NextSpam]_vars

\* _try_ydotool_key_typing called on each of the texts of KeyTexts.
InitKey == InitOn("wayland") /\ key_text \in KeyTexts /\ td_text = NoText /\ clipboard = NoText
             /\ selection = NoText /\ has_response_window = FALSE /\ focused_window = "w1"

NextKey == TryYdotoolKeyTyping

SpecKey == InitKey /\ [][NextKey]_vars

\* The paste simulation cascades, called on a Wayland session.
InitSim == InitOn("wayland") /\ key_text = NoText /\ td_text = NoText /\ selection = NoText
           /\ clipboard = NoText /\ ~has_response_window /\ focused_window = "w1"

NextSim ==
    \/ SimulatePaste
    \/ SimThreadStart
    \/ SimMethodReturns
    \/ SimJoin

SpecSim == InitSim /\ [][NextSim]_vars

\* _try_type_directly called with one text.
InitType == InitOn("wayland") /\ key_text = NoText /\ selection = NoText
            /\ clipboard = NoText /\ ~has_response_window /\ focused_window = "w1"
            /\ td_text \in TypeTexts

NextType == TryTypeDirectly

SpecType == InitType /\ [][NextType]_vars

\* The call returned; the next paste attempt can call the backend again.
YdReturns ==
    /\ yd_fn # "none"
    /\ yd_ret # "none"
    /\ yd_fn' = "none"
    /\ yd_i' = 0
    /\ yd_log' = <<>>
    /\ yd_ret' = "none"
    /\ UNCHANGED yd_daemons
    /\ UNCHANGED <<simvars, typevars, subvars, cgvars, tgtvars, provvars>>
    /\ UNCHANGED <<clipvars, wlvars, hotvars, keyvars, opvars>>

\* Outside the application: the user's session starts ydotoold when none runs,
\* or a running ydotoold exits.
YdDaemonChanges ==
    /\ yd_fn = "none"
    /\ yd_daemons' \in (IF yd_daemons = 0 THEN {1} ELSE {yd_daemons - 1})
    /\ UNCHANGED <<yd_fn, yd_i, yd_log, yd_ret>>
    /\ UNCHANGED <<simvars, typevars, subvars, cgvars, tgtvars, provvars>>
    /\ UNCHANGED <<clipvars, wlvars, hotvars, keyvars, opvars>>

\* Calls of _try_ydotool_paste and _try_ydotool_paste_enhanced, one after another.
InitYd == InitOn("wayland") /\ key_text = NoText /\ td_text = NoText /\ selection = NoText
          /\ clipboard = NoText /\ ~has_response_window /\ focused_window = "w1"

NextYd ==
    \/ YdotoolPaste
    \/ YdCommand
    \/ YdReturns
    \/ YdDaemonChanges

SpecYd == InitYd /\ [][NextYd]_vars

\* The subprocess invocations of activations on a Wayland session.
InitSub == InitOn("wayland") /\ key_text = NoText /\ td_text = NoText /\ selection = NoText
           /\ clipboard = NoText /\ ~has_response_window /\ focused_window = "w1"

NextSub ==
    \/ Activation
    \/ SubprocessRun
    \/ ActivationEnds

SpecSub == InitSub /\ [][NextSub]_vars

\* The threads of the application, on either session type.
InitThreads ==
    /\ InitOn("x11") \/ InitOn("wayland")
    /\ key_text = NoText /\ td_text = NoText
    /\ selection = NoText
    /\ clipboard = NoText
    /\ ~has_response_window
    /\ focused_window = "w1"

NextThreads ==
    \/ SlotRuns
    \/ Calls
    \/ SleepRuns
    \/ WriteRuns
    \/ FunctionReturns

SpecThreads == InitThreads /\ [][NextThreads]_vars

----------------------------------------------------------------------------
(* Claims                                                                  *)

GuardedOps == {"x11_get_selected_text", "x11_paste", "wayland_paste_text"}

\* C1: when a clipboard-guarded operation (X11Backend.get_selected_text,
\* _handle_x11_paste, WaylandBackend.paste_text) has returned, by success,
\* exception or early return, the clipboard holds what it held at the call.
C1_ClipboardRestored ==
    (pc = "idle" /\ op \in GuardedOps) => clipboard = clip0

C3_ClipboardOnlyHoldsText ==
    (/\ op = "wayland_paste" /\ pc = "idle" /\ ThreadsQuiet
     /\ avail \cap (Tools \ {"wl-copy"}) = {}
     /\ message[1] # "Error")
    => /\ message = <<"Info", "Text copied to clipboard! Press Ctrl+V to paste manually.">>
       /\ clipboard = text

\* C4: on the X11 replace path the clipboard holds the replacement text at the
\* moment the paste combo is sent, and holds the prior content again once the
\* replace operation has completed.
C4_X11ReplaceClipboard ==
    /\ (op = "x11_paste" /\ pc = "x11_restore") => combo_clip = text
    /\ (op = "x11_paste" /\ pc = "idle") => clipboard = clip0

C7_OnePipelineInFlight ==
    Cardinality({p \in DOMAIN pipelines : pipelines[p] # "none"}) <= 1

\* C8: with nothing selected, a call of the backend's get_selected_text that
\* returns gives the empty string, whatever the clipboard held (checked for
\* every call of a run, so also for two consecutive ones).
C8_NothingSelectedReturnsEmpty ==
    (pc = "idle" /\ op \in {"x11_get_selected_text", "wayland_get_selected_text"}
        /\ selection = NoText /\ ~raised)
    => ret = NoText

\* C9: when nothing is selected (and the capture tools are present and work),
\* get_selected_text does not raise and returns the empty string, and
\* on_hotkey_pressed ends with 'No text selected'.
C9_NoSelectionReachesNoText ==
    (outcome \in {"capture_error", "no_text", "popup"}
        /\ capture.sel = NoText /\ ~capture.faulty)
    => (~capture.raised /\ capture.ret = NoText /\ outcome = "no_text")

C11_FailedReadTolerated ==
    (read_failed /\ pc = "idle" /\ op \in {"x11_get_selected_text", "x11_paste"})
    => (~raised /\ message[1] # "Error")

\* C12: get_active_window_title of either backend never raises: it returns the
\* title of the focused window, or a placeholder.
C12_TitleNeverRaises ==
    (pc = "idle" /\ op \in {"x11_get_active_window_title",
                            "wayland_get_active_window_title"})
    => (~raised /\ ret \in {WindowTitle, Placeholder})

\* C13: on every exit path of _handle_wayland_paste (automatic replacement
\* succeeded, generic paste succeeded, manual-paste fallback, clipboard not set)
\* the restoration of a backed-up clipboard content is started, once: the step
\* that leaves the handler with a backup in hand starts the restore thread.
C13_RestoreOnEveryExit ==
    [][(op = "wayland_paste" /\ pc # "replace_end" /\ pc' = "replace_end"
            /\ clipboard_backup # NoText)
       => (rs_thread = "none" /\ rs_thread' = "running")]_vars

\* C14: in a Wayland replace operation the backup read is over before the
\* clipboard is overwritten, and the backup kept for the restoration is the
\* content the clipboard held before the operation, never the replacement text.
C14_BackupBeforeOverwrite ==
    op = "wayland_paste" =>
        /\ pc \in {"wl_store", "wl_replace", "wl_method", "wl_cascade", "wl_cjoin"}
              => bk_thread = "done"
        /\ clipboard_backup # NoText => clipboard_backup = clip0

\* C15: in the paste simulation cascades a candidate that is not installed or
\* whose invocation failed is skipped and the next one is tried: a cascade that
\* returned before its last candidate stopped at a candidate that succeeded.
C15_StopsOnlyAfterSuccess ==
    (sim_pc = "returned" /\ sim_i < Len(sim_methods))
        => sim_threads[sim_i] = "True"

\* C16 as stated: the generic paste cascade runs only when no window is tracked
\* or every one of the five replacement methods failed.
C16_CascadeOnlyAfterAllFailed ==
    (op = "wayland_paste" /\ invoked # <<>>)
        => (original_window = "unset" \/ tried = ReplacementMethods)

IsPrefix(s, t) == Len(s) <= Len(t) /\ s = SubSeq(t, 1, Len(s))

\* C16, amended: the replacement methods are attempted in the order direct
\* typing, select-all then paste, paste, backspace then paste, delete then paste,
\* and the paste backends after them in their order; the first replacement method
\* that succeeds ends the sequence; the generic paste cascade runs only when no
\* window could be activated (none tracked, or the activation failed) or every
\* one of the five methods failed.
C16_AttemptOrder ==
    op = "wayland_paste" =>
        /\ IsPrefix(tried, <<"type_directly", "ctrl+a ctrl+v", "ctrl+v",
                             "backspace ctrl+v", "delete ctrl+v">>)
        /\ IsPrefix(invoked, PasteBackends)
        /\ replaced_by # 0 => (Len(tried) = replaced_by /\ invoked = <<>>)
        /\ invoked # <<>> =>
              /\ replaced_by = 0
              /\ activated = "none" \/ tried = ReplacementMethods
        /\ tried # <<>> => activated # "none"

C16_Witness ==
    /\ op = "wayland_paste"
    /\ pc = "idle"
    /\ tried = ReplacementMethods
    /\ Len(invoked) >= 2

\* C17: the window comprehensive replacement activates is the window that had
\* the focus when the current replace operation began.
C17_ActivatesCurrentWindow ==
    (op = "wayland_paste" /\ activated # "none") => activated = focus0

\* C18: the backend attempts of _try_comprehensive_paste never overlap: when a
\* backend is started the worker of the backend before it has finished, and the
\* target application receives at most one paste per replace operation.
C18_BackendsNeverOverlap ==
    op = "wayland_paste" =>
        /\ \A i \in DOMAIN workers :
              (i > 1 /\ workers[i] # "none") => workers[i - 1] # "running"
        /\ Len(pasted) <= 1

\* C19: for a text of any length _try_type_directly attempts the keystroke-level
\* injection first: every bulk `ydotool type` command it runs comes after a call
\* of the key typing that failed.
C19_KeyInjectionFirst ==
    td_ret # "none" =>
        \A j \in DOMAIN td_log :
            td_log[j][1] = "ydotool type" =>
                \E i \in 1..(j - 1) : td_log[i] = <<"key typing returned", 0>>

\* C20: within one ydotool backend attempt the daemon is killed and respawned at
\* most once, and the command that failed with 'failed to connect socket' is run
\* again right after the respawn, before the attempt ends.
C20_OneRestartThenRetry ==
    yd_ret # "none" =>
        /\ Cardinality({j \in DOMAIN yd_log : yd_log[j][1] = "restart"}) <= 1
        /\ \A j \in DOMAIN yd_log :
              yd_log[j][1] = "restart" =>
                  \E k \in (j + 1)..Len(yd_log) : yd_log[k] = <<"run", yd_log[j][2]>>

\* C21: ydotoold is started only after a check that no daemon is running: the
\* application never spawns a daemon while one is still running, so at most one
\* ydotoold exists.
C21_SingleDaemon ==
    [][yd_daemons' > yd_daemons => yd_daemons = 0]_vars

\* C22: when the first capture attempt of _show_popup returns empty text, the
\* capture is retried exactly once, and the retry waits a longer settle delay
\* (0.5 s) between the simulated copy and the clipboard read than the first
\* attempt did (0.2 s).
C22_RetryWaitsLonger ==
    (popup_captures # <<>> /\ popup_captures[1].ret = NoText) =>
        /\ Len(popup_captures) = 2
        /\ popup_captures[1].settle = default_sleep_duration
        /\ popup_captures[2].settle = retry_sleep_duration

\* C23: the spam check runs once for every hotkey activation: after a call of
\* on_hotkey_pressed, whatever its outcome, the latest call of
\* check_trigger_spam is of that activation and its time is in recent_triggers.
C23_SpamCheckEveryActivation ==
    outcome # "none" =>
        /\ checks # <<>>
        /\ checks[Len(checks)] = prev_trigger
        /\ \E i \in DOMAIN recent_triggers : recent_triggers[i] = prev_trigger

\* C24: every subprocess invocation of an activation has an explicit timeout, so
\* the activation never waits for ever on an external tool that does not return.
C24_EveryInvocationTimesOut ==
    /\ sub_state # "hung"
    /\ \A j \in DOMAIN sub_log : SubCalls[sub_log[j][1]].timeout > 0

\* C25: every blocking sleep of the capture, replace and injection code is
\* executed on a worker thread, never on the event-loop thread.
C25_NoSleepOnEventLoop ==
    cg_sleeping["event_loop"] = 0

\* C26: a worker thread never assigns application state shared with the
\* event-loop thread (output_queue, chat_history) and never calls replace_text
\* directly: replace_text runs on the event-loop thread only.
C26_WorkersOnlySignal ==
    /\ cg_writing["worker"] = "none"
    /\ \A i \in DOMAIN cg_stack["worker"] : cg_stack["worker"][i] # "replace_text"

\* C27: on the X11 replace path the target application, handling the paste
\* key event in its own time, reads the replacement text from the clipboard:
\* the original content is not restored before the target consumed the paste.
C27_TargetReadsReplacement ==
    target_got # NotYet => target_got.read = target_got.expected

\* C30: when a provider request fails nothing is pasted into the target
\* application: no error description of a provider travels through
\* output_ready_signal to replace_text, and none is in the clipboard when the
\* paste combo is injected.
C30_FailuresOnlyReported ==
    /\ \A i \in DOMAIN prov_signals :
        prov_signals[i].signal = "output_ready" => prov_signals[i].text \notin ErrorDescriptions
    /\ combo_clip \notin ErrorDescriptions

C29_KeyEventsDetermineText ==
    key_ret # "none" =>
        LET typed == Supported(Truncate(key_text))
        IN /\ Len(key_sequence) = 2 * Len(typed)
           /\ \A i \in DOMAIN typed :
                \A c \in DOMAIN char_to_keycode :
                    char_to_keycode[c] = key_sequence[2 * i - 1][1] => c = typed[i]

====
